---- MODULE Spec2Model ----
(***************************************************************************)
(* The surface compositing engine of figments (figments/src/surface.rs):   *)
(* a producer task calls the BufferedSurface mutators, which push sparse   *)
(* patches into the shared UpdateQueue; the render task owns the           *)
(* ShaderChain, commits the queue into the bindings and paints them.       *)
(*                                                                         *)
(* Slots are 0-based as in the source; bindings[slot + 1] is the binding   *)
(* of a slot.  Option<T> is a sequence: <<>> is None and <<v>> is Some(v). *)
(* A binding's shader is NoShader (Option::None) or a shader id.           *)
(* Coordinates keep their x component only: LinearSpace ignores y.         *)
(***************************************************************************)
EXTENDS Integers, Sequences, FiniteSets, TLC

\* ------------------------------------------------------------------ bounds
\* Number of surfaces the owner creates.
MaxSurfaces == 2
\* Number of mutator calls the producer makes.
MaxCalls == 3
\* Capacity of the update ring buffer.  The source uses StaticRb<_, 32>; the
\* model scales it down so that a full FIFO is reachable.
Capacity == 2
\* Number of pixels of the destination buffer.
PixelCount == 2
\* Number of tasks contending for one AtomicMutex.
Tasks == 2
\* Number of writes made through guards to the value behind the mutex.
MaxInner == 2
\* Largest pixel buffer given to the slice sampler; rectangles reach one past it.
MaxLinear == 3
\* Largest pixel buffer given to the virtual-space linear mapper.
MaxVirt == 5
\* Largest frame (in pixels) given to PowerManagedWriter::write.
MaxFrame == 2
\* Number of frames written.
MaxWrites == 2
\* brightness_for_mw is tried on every total and ceiling up to this many
\* milliwatts, beside the larger values of TotalArgs and CeilingArgs.
MaxSmallMw == 12

\* Calls and surfaces of the capacity specification: enough surfaces to
\* overflow the FIFO, enough calls to fill it, merge into it and overflow it.
CapSurfaces == Capacity + 1
CapCalls == Capacity + 1
\* Ids of the mutator calls (ghost)
CallIds == 1..(MaxCalls + CapCalls)
TaskIds == 1..Tasks

\* ------------------------------------------------------- program constants
\* The earlier revision of the queue (src/src/surface.rs): HeapRb::new(16) at
\* construction, HeapRb::new(8) for the ring buffer try_take swaps in
LegacyCapacity == 16
LegacyTakeCapacity == 8
\* Stand-in for usize::MAX (TLC integers are 32 bit); larger than any buffer.
UsizeMax == 2147483647
\* Fract8::MAX / u8::MAX, the opacity of a fresh binding.
OpacityMax == 255
\* The WS2812B current model of impl AsMilliwatts for Rgb, in mW at 5 V
RED_MW == 80
GREEN_MW == 55
BLUE_MW == 75
DARK_MW == 5

NoShader == "none"
ShaderIds == {"white", "ramp"}
\* The shaders the producer installs in the concurrent specification
ShaderArgs == {"ramp"}

\* Shader::draw for the two shaders of the model: a constant white one and
\* one that depends on the coordinate it is given.
draw(shader, x) ==
    IF shader = "white" THEN 255 ELSE (40 + 60 * x) % 256

\* Rectangle::everything(), Rectangle::left(), Rectangle::width()
everything == [left |-> 0, right |-> UsizeMax]
left(rect) == rect.left
width(rect) == rect.right - rect.left

\* Coordinates::top_left(), the offset of a fresh binding
top_left == 0

\* ---------------------------------------------------------- mutator inputs
RectArgs == {[left |-> 1, right |-> 2]}
OpacityArgs == {128}
OffsetArgs == {1}

Min(a, b) == IF a < b THEN a ELSE b
Max(a, b) == IF a > b THEN a ELSE b

\* usize subtraction: a debug build panics on a negative difference, a
\* release build wraps it (UsizeMax stands for usize::MAX)
usize_sub(a, b) == IF a >= b THEN a - b ELSE UsizeMax + (a - b) + 1

\* ------------------------------------------------------------------- state
VARIABLES
    bindings,   \* ShaderChain.bindings: Vec<ShaderBinding>
    handles,    \* slots of the BufferedSurface handles handed out, in order
    pending,    \* UpdateQueue.pending: the ring buffer behind the mutex
    damaged,    \* UpdateQueue.damaged: AtomicBool
    status,     \* the mutex around pending: 0 unlocked, 1 locked
    pcap,       \* capacity of the ring buffer that pending holds at present
    ppc,        \* producer: position inside a mutator call / push
    pupd,       \* producer: the SurfaceUpdate of the call in progress
    presult,    \* producer: result of the last push ("none", "ok", "err")
    cpc,        \* render task: position inside commit / try_take
    drained,    \* render task: the ring buffer try_take returned
    cidx,       \* render task: position of commit's loop in drained
    pixbuf,     \* destination buffer of the last render_to
    ncalls,     \* ghost: number of mutator calls made so far
    accepted,   \* ghost: ids of the calls whose push succeeded
    consumed,   \* ghost: per call id, how many times commit's loop took it
    ideal,      \* ghost: bindings with every accepted call applied directly
    batch,      \* ghost: per slot, last value per field accepted since the swap
    dbatch,     \* ghost: batch as it was when try_take swapped the FIFO
    committed,  \* ghost: bindings as the last returned commit / new_surface left them
    rlog,       \* ghost: slots painted by the last render_to, in order
    rsampled,   \* ghost: slots whose rectangle the last render_to sampled
    rinput,     \* ghost: the buffer the last render_to was given
    runapplied, \* ghost: ids pushed before the last render_to and not applied
    mstatus,    \* AtomicMutex.status: AtomicUsize
    tpc,        \* per task: position around lock / try_lock / the guard's drop
    tresult,    \* per task: result of its last try_lock ("none", "ok", "err")
    inner,      \* AtomicMutex.inner: the value behind the guard
    lpc,        \* slice sampler: "new" before sample(rect), "sampled" after
    lrect,      \* slice sampler: the rectangle sampled
    lbuf,       \* slice sampler: the pixel buffer
    lpairs,     \* slice sampler: the (coordinate, pixel) pairs yielded, in order
    vpc,        \* LinearSampleView: "new" before the iteration, "done" after
    vsize,      \* LinearSampleView: pixel_count of the buffer
    vrect,      \* LinearSampleView: the Virtual rectangle sampled
    vpairs,     \* LinearSampleView: the (virtual x, index) pairs yielded
    view,       \* LinearSampleView: start_idx, end_idx, length, offset
    controls,   \* PowerManagedWriter.controls: PowerControls
    wframe,     \* the pixel buffer given to the last write
    sunk,       \* the pixels the sink took in the last write
    sinkcalls,  \* number of calls of the sink's write made by the last write
    sinkresult, \* what the sink returned to the last write
    wresult,    \* what the last write returned
    wmodes,     \* ghost: per write so far, whether the controls were on
    btotal,     \* brightness_for_mw: total_mw
    btarget,    \* brightness_for_mw: target
    bmax,       \* brightness_for_mw: max_power
    bout,       \* brightness_for_mw: the value returned (<<>> before the call)
    build,      \* "debug" (overflow checks, debug_assert) or "release"
    smap,       \* StrideMapping: strides, pixel_count, size
    srect,      \* StrideView: the Virtual rectangle sampled
    sbuflen,    \* StrideView: length of the pixel buffer behind pixbuf
    sview,      \* StrideView: range and cur
    spc,        \* StrideView: "new", "iter", "done" (None returned), "panic"
    syield,     \* StrideView: the cells yielded so far, in order
    gspace,     \* rotated: the coordinate space of the rectangle
    gorig,      \* rotated: the rectangle the calls started from
    grect,      \* rotated: the rectangle the last call returned
    gturns,     \* rotated: the rotation arguments applied so far, in order
    nfmt,       \* blend8: the pixel format of the operands
    na,         \* blend8: self
    nb,         \* blend8: other
    nscale,     \* blend8: scale
    nout,       \* blend8: the value returned (<<>> before the call)
    bpc,        \* SurfaceBuilder: "none", "built", "returned", "used"
    bcfg,       \* SurfaceBuilder: rect, opacity, shader, visible (Options)
    bbase,      \* ghost: number of bindings when the builder was made
    bfirst      \* ghost: number of mutator calls when the builder was made

vars == <<bindings, handles, pending, damaged, status, pcap, ppc, pupd, presult,
          cpc, drained, cidx, pixbuf, ncalls, accepted, consumed, ideal,
          batch, dbatch, committed, rlog, rsampled, rinput, runapplied,
          mstatus, tpc, tresult, inner, lpc, lrect, lbuf, lpairs,
          vpc, vsize, vrect, vpairs, view, controls, wframe, sunk, sinkcalls,
          sinkresult, wresult, wmodes, btotal, btarget, bmax, bout,
          build, smap, srect, sbuflen, sview, spc, syield,
          gspace, gorig, grect, gturns, nfmt, na, nb, nscale, nout,
          bpc, bcfg, bbase, bfirst>>

prodVars == <<ppc, pupd, presult, ncalls>>
consVars == <<cpc, drained, cidx>>
renderVars == <<pixbuf, rlog, rsampled, rinput, runapplied>>
mutexVars == <<mstatus, tpc, tresult, inner>>
linearVars == <<lpc, lrect, lbuf, lpairs>>
virtVars == <<vpc, vsize, vrect, vpairs, view>>
powerVars == <<controls, wframe, sunk, sinkcalls, sinkresult, wresult, wmodes>>
brightVars == <<btotal, btarget, bmax, bout>>
strideVars == <<smap, srect, sbuflen, sview, spc, syield>>
rotVars == <<gspace, gorig, grect, gturns>>
blendVars == <<nfmt, na, nb, nscale, nout>>
builderVars == <<bpc, bcfg, bbase, bfirst>>
libVars == <<build, builderVars, strideVars, rotVars, blendVars>>
compVars == <<mutexVars, linearVars, virtVars, powerVars, brightVars, libVars>>
\* What the mutators, push and commit's loop leave alone: the other components
\* and the capacity of the ring buffer, which only try_take's swap decides
auxVars == <<pcap, compVars>>

\* ------------------------------------------------------------- data types
\* Mutant of NewBinding: the opacity is left at u8's default
NewBindingTransparent(area) ==
    [shader |-> NoShader, rect |-> area, opacity |-> 0,
     visible |-> TRUE, offset |-> top_left]

\* ShaderBinding as new_surface builds it
NewBinding(area) ==
    [shader |-> NoShader, rect |-> area, opacity |-> OpacityMax,
     visible |-> TRUE, offset |-> top_left]

\* impl Default for SurfaceUpdate (slot usize::MAX); ids is a ghost field: the
\* ids of the mutator calls merged into the update.
SurfaceUpdateDefault ==
    [shader |-> <<>>, rect |-> <<>>, opacity |-> <<>>, visible |-> <<>>,
     offset |-> <<>>, slot |-> UsizeMax, ids |-> {}]

\* The one-field patches the BufferedSurface mutators build
clear_shader(slot) == [SurfaceUpdateDefault EXCEPT !.shader = <<NoShader>>, !.slot = slot]
set_rect(slot, rect) == [SurfaceUpdateDefault EXCEPT !.rect = <<rect>>, !.slot = slot]
set_shader(slot, shader) == [SurfaceUpdateDefault EXCEPT !.shader = <<shader>>, !.slot = slot]
set_opacity(slot, opacity) == [SurfaceUpdateDefault EXCEPT !.opacity = <<opacity>>, !.slot = slot]
set_visible(slot, visible) == [SurfaceUpdateDefault EXCEPT !.visible = <<visible>>, !.slot = slot]
set_offset(slot, offset) == [SurfaceUpdateDefault EXCEPT !.offset = <<offset>>, !.slot = slot]

\* A merge in which the first write of a field wins
merge_first_wins(self, other) ==
    [self EXCEPT
        !.shader = IF @ = <<>> THEN other.shader ELSE @,
        !.rect = IF @ = <<>> THEN other.rect ELSE @,
        !.opacity = IF @ = <<>> THEN other.opacity ELSE @,
        !.visible = IF @ = <<>> THEN other.visible ELSE @,
        !.offset = IF @ = <<>> THEN other.offset ELSE @]

\* SurfaceUpdate::merge: every field other carries overwrites self's
merge(self, other) ==
    [self EXCEPT
        !.shader = IF other.shader # <<>> THEN other.shader ELSE @,
        !.rect = IF other.rect # <<>> THEN other.rect ELSE @,
        !.opacity = IF other.opacity # <<>> THEN other.opacity ELSE @,
        !.visible = IF other.visible # <<>> THEN other.visible ELSE @,
        !.offset = IF other.offset # <<>> THEN other.offset ELSE @]

\* The body of commit's loop: the fields of update that commit writes into
\* the target binding
ApplyUpdate(target_slot, update) ==
    [target_slot EXCEPT
        !.shader = IF update.shader # <<>> THEN update.shader[1] ELSE @,
        !.opacity = IF update.opacity # <<>> THEN update.opacity[1] ELSE @,
        !.rect = IF update.rect # <<>> THEN update.rect[1] ELSE @,
        !.visible = IF update.visible # <<>> THEN update.visible[1] ELSE @]

\* Reference semantics of a patch (ghost): every field it carries is set.
DirectApply(binding, update) ==
    [binding EXCEPT
        !.shader = IF update.shader # <<>> THEN update.shader[1] ELSE @,
        !.opacity = IF update.opacity # <<>> THEN update.opacity[1] ELSE @,
        !.rect = IF update.rect # <<>> THEN update.rect[1] ELSE @,
        !.visible = IF update.visible # <<>> THEN update.visible[1] ELSE @,
        !.offset = IF update.offset # <<>> THEN update.offset[1] ELSE @]

\* Reference record of the fields touched since the swap (ghost)
NoFields ==
    [shader |-> <<>>, rect |-> <<>>, opacity |-> <<>>, visible |-> <<>>,
     offset |-> <<>>]
Touch(fields, update) ==
    [shader |-> IF update.shader # <<>> THEN update.shader ELSE fields.shader,
     rect |-> IF update.rect # <<>> THEN update.rect ELSE fields.rect,
     opacity |-> IF update.opacity # <<>> THEN update.opacity ELSE fields.opacity,
     visible |-> IF update.visible # <<>> THEN update.visible ELSE fields.visible,
     offset |-> IF update.offset # <<>> THEN update.offset ELSE fields.offset]

\* Mutant of existing_slot: the search never matches
existing_slot_never(locked, slot) == 0

\* The first update of the ring buffer with the given slot (0 when none):
\* the search loop of UpdateQueue::push
existing_slot(locked, slot) ==
    IF \E i \in 1..Len(locked) : locked[i].slot = slot
    THEN CHOOSE i \in 1..Len(locked) :
            /\ locked[i].slot = slot
            /\ \A j \in 1..(i - 1) : locked[j].slot # slot
    ELSE 0

\* ---------------------------------------------------------------- rendering
\* u8::blend8 (interpolate.rs): the 16-bit wrapping lerp of one channel
\* A blend that weighs the operands by scale / 256
blend8_weighted(self, other, scale) ==
    (self * (256 - scale) + other * scale) \div 256

blend8(self, other, scale) ==
    IF scale = 0 THEN self
    ELSE IF scale = 255 THEN other
    ELSE (((((self * 256 + other) + other * scale) % 65536)
            + 65536 - self * scale) % 65536) \div 256

\* AdditivePixelSink::add: opacity 0 leaves the pixel alone, opacity 255
\* overwrites it, anything else blends
add(pixel, overlay, opacity) ==
    IF opacity = 0 THEN pixel
    ELSE IF opacity = 255 THEN overlay
    ELSE blend8(pixel, overlay, opacity)

\* impl Sample<LinearSpace> for [Pixel]: the 0-based buffer indices a
\* rectangle selects over a buffer of the given size; index i is yielded with
\* the coordinate (i - start) + rect.left()
SampleStart(size, rect) == Min(left(rect), size)

\* Mutant of SampleCount: the last pixel of the buffer is never part of a range
SampleCountShort(size, rect) == Min(width(rect), size - 1 - SampleStart(size, rect))

SampleCount(size, rect) == Min(width(rect), size - SampleStart(size, rect))
sample(size, rect) ==
    { SampleStart(size, rect) + k : k \in 0..(SampleCount(size, rect) - 1) }

\* Mutant of SampleCoord: the position inside the clipped subset is reported
SampleCoordRelative(size, rect, i) == i - SampleStart(size, rect)

SampleCoord(size, rect, i) == (i - SampleStart(size, rect)) + left(rect)

\* The iterator sample returns: the clipped subset enumerated in order, each
\* pixel (by its buffer index) with the coordinate reported for it
SampleSeq(size, rect) ==
    [k \in 1..SampleCount(size, rect) |->
        [index |-> SampleStart(size, rect) + k - 1,
         x |-> SampleCoord(size, rect, SampleStart(size, rect) + k - 1)]]

\* Mutant of Paints: the visible flag is not consulted
PaintsIgnoringVisible(surface) ==
    /\ surface.opacity > 0
    /\ surface.shader # NoShader

\* The test of render_to's loop body: the binding is painted at all
Paints(surface) ==
    /\ surface.opacity > 0
    /\ surface.visible
    /\ surface.shader # NoShader

\* The inner loop of render_to: one binding painted over the buffer
PaintBinding(buf, surface) ==
    [i \in 1..Len(buf) |->
        IF (i - 1) \in sample(Len(buf), surface.rect)
        THEN add(buf[i],
                 draw(surface.shader,
                      SampleCoord(Len(buf), surface.rect, i - 1) + surface.offset),
                 surface.opacity)
        ELSE buf[i]]

\* Mutant of RenderFrom: the bindings are walked from the last to the first
RECURSIVE RenderFromDescending(_, _, _)
RenderFromDescending(bs, k, acc) ==
    IF k > Len(bs) THEN acc
    ELSE LET slot == Len(bs) - k IN
         IF Paints(bs[slot + 1])
         THEN RenderFromDescending(bs, k + 1,
                [buf |-> PaintBinding(acc.buf, bs[slot + 1]),
                 log |-> Append(acc.log, slot),
                 sampled |-> acc.sampled \cup {slot}])
         ELSE RenderFromDescending(bs, k + 1, acc)

\* The outer loop of render_to from binding k on: acc carries the buffer,
\* the slots painted so far in painting order and the slots sampled
RECURSIVE RenderFrom(_, _, _)
RenderFrom(bs, k, acc) ==
    IF k > Len(bs) THEN acc
    ELSE IF Paints(bs[k])
         THEN RenderFrom(bs, k + 1,
                [buf |-> PaintBinding(acc.buf, bs[k]),
                 log |-> Append(acc.log, k - 1),
                 sampled |-> acc.sampled \cup {k - 1}])
         ELSE RenderFrom(bs, k + 1, acc)

\* BufferedSurfacePool::render_to as a function of the bindings and the buffer
Render(bs, buf) ==
    RenderFrom(bs, 1, [buf |-> buf, log |-> <<>>, sampled |-> {}])

Blank == [i \in 1..PixelCount |-> 0]

\* ------------------------------------------------------------ AtomicMutex
\* AtomicMutex::new: status 0, the inner value as given
MutexInit ==
    /\ mstatus = 0
    /\ tpc = [t \in TaskIds |-> "idle"]
    /\ tresult = [t \in TaskIds |-> "none"]
    /\ inner = 0

\* ------------------------------------------------- samplers and output
\* No buffer has been sampled yet
LinearIdle ==
    /\ lpc = "new"
    /\ lrect = everything
    /\ lbuf = <<>>
    /\ lpairs = <<>>

\* No LinearSampleView has been built yet
NoView == [start_idx |-> 0, end_idx |-> 0, length |-> 0, offset |-> 0]

VirtIdle ==
    /\ vpc = "new"
    /\ vsize = 1
    /\ vrect = [left |-> 0, right |-> 255]
    /\ vpairs = <<>>
    /\ view = NoView

\* PowerControls::new: full brightness, on, the default gamma curve
PowerControlsNew(max_mw) ==
    [max_mw |-> max_mw, brightness |-> 255, is_on |-> TRUE,
     gamma_curve |-> "default", cur_mw |-> 0]

\* PowerManagedWriter::new, nothing written yet
PowerInit(max_mw) ==
    /\ controls = PowerControlsNew(max_mw)
    /\ wframe = <<>>
    /\ sunk = <<>>
    /\ sinkcalls = 0
    /\ sinkresult = "none"
    /\ wresult = "none"
    /\ wmodes = <<>>

\* brightness_for_mw has not been called
BrightIdle ==
    /\ btotal = 0
    /\ btarget = 0
    /\ bmax = 0
    /\ bout = <<>>

\* No StrideView has been built yet
NoStrideView ==
    [range |-> [top_left |-> [x |-> 0, y |-> 0], bottom_right |-> [x |-> 0, y |-> 0]],
     cur |-> [x |-> 0, y |-> 0]]

StrideIdle ==
    /\ smap = [strides |-> <<>>, pixel_count |-> 0,
               size |-> NoStrideView.range]
    /\ srect = NoStrideView.range
    /\ sbuflen = 0
    /\ sview = NoStrideView
    /\ spc = "new"
    /\ syield = <<>>

\* No rectangle has been rotated yet
RotIdle ==
    /\ gspace = "Virtual"
    /\ gorig = NoStrideView.range
    /\ grect = NoStrideView.range
    /\ gturns = <<>>

\* blend8 has not been called
BlendIdle ==
    /\ nfmt = "u8"
    /\ na = [c \in {"v"} |-> 0]
    /\ nb = [c \in {"v"} |-> 0]
    /\ nscale = 0
    /\ nout = <<>>

\* SurfaceBuilder::build: nothing configured; no builder has been made yet
BuilderDefault ==
    [rect |-> <<>>, opacity |-> <<>>, shader |-> <<>>, visible |-> <<>>]
BuilderIdle ==
    /\ bpc = "none"
    /\ bcfg = BuilderDefault
    /\ bbase = 0
    /\ bfirst = 0

\* The builder, mappings, geometry and liber8tion components at rest, a
\* release build
LibIdle == build = "release" /\ BuilderIdle /\ StrideIdle /\ RotIdle /\ BlendIdle

\* Initial state of the components beside the surface engine
AuxInit ==
    MutexInit /\ LinearIdle /\ VirtIdle /\ PowerInit(0) /\ BrightIdle /\ LibIdle

\* -------------------------------------------------------------------- Init
ChainDefault ==
    /\ bindings = <<>>
    /\ handles = <<>>
    /\ pending = <<>>
    /\ damaged = FALSE
    /\ status = 0
    /\ ppc = "idle"
    /\ pupd = SurfaceUpdateDefault
    /\ presult = "none"
    /\ cpc = "idle"
    /\ drained = <<>>
    /\ cidx = 0
    /\ pixbuf = Blank
    /\ ncalls = 0
    /\ accepted = {}
    /\ consumed = [id \in CallIds |-> 0]
    /\ ideal = <<>>
    /\ batch = <<>>
    /\ dbatch = <<>>
    /\ committed = <<>>
    /\ rlog = <<>>
    /\ rsampled = {}
    /\ rinput = Blank
    /\ runapplied = {}

\* Default for UpdateQueue: the ring buffer has the capacity of its type
SurfaceInit == ChainDefault /\ pcap = Capacity

Init == SurfaceInit /\ AuxInit

ghostVars == <<accepted, consumed, ideal, batch, dbatch, committed>>

\* ------------------------------------------------- producer: the mutators
\* A BufferedSurface mutator is entered: the patch is built and push called
mutator_call(update) ==
    /\ ppc = "idle"
    /\ ncalls' = ncalls + 1
    /\ pupd' = [update EXCEPT !.ids = {ncalls + 1}]
    /\ presult' = "none"
    /\ ppc' = "lock"
    /\ UNCHANGED <<bindings, handles, pending, damaged, status>>
    /\ UNCHANGED <<consVars, renderVars, ghostVars, auxVars>>

Slots == { handles[i] : i \in 1..Len(handles) }

\* The producer calls a mutator of one of its handles
call_clear_shader ==
    /\ ncalls < MaxCalls
    /\ \E s \in Slots : mutator_call(clear_shader(s))
call_set_rect ==
    /\ ncalls < MaxCalls
    /\ \E s \in Slots, r \in RectArgs : mutator_call(set_rect(s, r))
call_set_shader ==
    /\ ncalls < MaxCalls
    /\ \E s \in Slots, t \in ShaderArgs : mutator_call(set_shader(s, t))
call_set_opacity ==
    /\ ncalls < MaxCalls
    /\ \E s \in Slots, o \in OpacityArgs : mutator_call(set_opacity(s, o))
call_set_visible ==
    /\ ncalls < MaxCalls
    /\ \E s \in Slots, v \in BOOLEAN : mutator_call(set_visible(s, v))
call_set_offset ==
    /\ ncalls < MaxCalls
    /\ \E s \in Slots, c \in OffsetArgs : mutator_call(set_offset(s, c))

\* UpdateQueue::push, `self.pending.lock()`
push_lock ==
    /\ ppc = "lock"
    /\ status = 0
    /\ status' = 1
    /\ ppc' = "find"
    /\ UNCHANGED <<bindings, handles, pending, damaged, pupd, presult, ncalls>>
    /\ UNCHANGED <<consVars, renderVars, ghostVars, auxVars>>

\* The ghost bookkeeping of an accepted update
Accept(update) ==
    /\ accepted' = accepted \cup update.ids
    /\ ideal' = [ideal EXCEPT ![update.slot + 1] = DirectApply(@, update)]
    /\ batch' = [batch EXCEPT ![update.slot + 1] = Touch(@, update)]
    /\ UNCHANGED <<consumed, dbatch, committed>>

\* Mutant of PushOutcome: the capacity is tested before the search
PushOutcomeFullFirst(locked, update) ==
    LET i == existing_slot(locked, update.slot) IN
    IF Len(locked) >= pcap
    THEN [queue |-> locked, pushed |-> FALSE, full |-> TRUE]
    ELSE IF i # 0
    THEN [queue |-> [locked EXCEPT ![i] =
                        [merge(@, update) EXCEPT !.ids = @ \cup update.ids]],
          pushed |-> FALSE, full |-> FALSE]
    ELSE [queue |-> Append(locked, update), pushed |-> TRUE, full |-> FALSE]

\* What push does to the ring buffer under the lock: merge into the update
\* already pending for the slot, else try_push.  full: try_push returned Err.
PushOutcome(locked, update) ==
    LET i == existing_slot(locked, update.slot) IN
    IF i # 0
    THEN [queue |-> [locked EXCEPT ![i] =
                        [merge(@, update) EXCEPT !.ids = @ \cup update.ids]],
          pushed |-> FALSE, full |-> FALSE]
    ELSE IF Len(locked) < pcap
    THEN [queue |-> Append(locked, update), pushed |-> TRUE, full |-> FALSE]
    ELSE [queue |-> locked, pushed |-> FALSE, full |-> TRUE]

\* Mutant of PushBindings: the mutator writes through to its binding
PushBindingsWriteThrough(bs, update) ==
    [bs EXCEPT ![update.slot + 1] = ApplyUpdate(@, update)]

\* What push does to the bindings list: the handle holds the queue and its
\* slot only, so nothing
PushBindings(bs, update) == bs

\* UpdateQueue::push, the search and the match on existing_slot
push_find ==
    /\ ppc = "find"
    /\ bindings' = PushBindings(bindings, pupd)
    /\ LET out == PushOutcome(pending, pupd) IN
        /\ pending' = out.queue
        /\ IF out.full
           THEN /\ presult' = "err"
                /\ ppc' = "unlock"
                /\ UNCHANGED ghostVars
           ELSE /\ presult' = IF out.pushed THEN presult ELSE "ok"
                /\ ppc' = IF out.pushed THEN "store" ELSE "unlock"
                /\ Accept(pupd)
    /\ UNCHANGED <<handles, damaged, status, pupd, ncalls>>
    /\ UNCHANGED <<consVars, renderVars, auxVars>>

\* UpdateQueue::push, `Ok(_) => self.damaged.store(true, Relaxed)`
push_store ==
    /\ ppc = "store"
    /\ damaged' = TRUE
    /\ presult' = "ok"
    /\ ppc' = "unlock"
    /\ UNCHANGED <<bindings, handles, pending, status, pupd, ncalls>>
    /\ UNCHANGED <<consVars, renderVars, ghostVars, auxVars>>

\* push returns and the guard is dropped; on Err the mutator's unwrap panics
push_unlock ==
    /\ ppc = "unlock"
    /\ status' = 0
    /\ ppc' = IF presult = "err" THEN "panicked" ELSE "idle"
    /\ pupd' = SurfaceUpdateDefault
    /\ UNCHANGED <<bindings, handles, pending, damaged, presult, ncalls>>
    /\ UNCHANGED <<consVars, renderVars, ghostVars, auxVars>>

\* ---------------------------------------------- render task: commit
\* A try_take that does not look at the flag and always goes for the lock
commit_load_unconditional ==
    /\ cpc = "idle"
    /\ cpc' = "lock"
    /\ UNCHANGED <<bindings, handles, pending, damaged, status, drained, cidx>>
    /\ UNCHANGED <<prodVars, renderVars, ghostVars, auxVars>>

\* ShaderChain::commit is entered and calls UpdateQueue::try_take,
\* `if self.damaged.load(Acquire)`: when clean try_take returns None and
\* commit returns at once
commit_load ==
    /\ cpc = "idle"
    /\ cpc' = IF damaged THEN "lock" ELSE "idle"
    /\ UNCHANGED <<bindings, handles, pending, damaged, status, drained, cidx>>
    /\ UNCHANGED <<prodVars, renderVars, ghostVars, auxVars>>

\* UpdateQueue::try_take, `self.pending.lock()`
try_take_lock ==
    /\ cpc = "lock"
    /\ status = 0
    /\ status' = 1
    /\ cpc' = "clear"
    /\ UNCHANGED <<bindings, handles, pending, damaged, drained, cidx>>
    /\ UNCHANGED <<prodVars, renderVars, ghostVars, auxVars>>

\* UpdateQueue::try_take, `self.damaged.store(false, Relaxed)`
try_take_clear ==
    /\ cpc = "clear"
    /\ damaged' = FALSE
    /\ cpc' = "take"
    /\ UNCHANGED <<bindings, handles, pending, status, drained, cidx>>
    /\ UNCHANGED <<prodVars, renderVars, ghostVars, auxVars>>

\* A take that copies the ring buffer and leaves it as it was
TakeLeavesCopy(updates) == updates

\* What core::mem::take leaves behind in the mutex: a Default ring buffer
TakeLeaves(updates) == <<>>

\* The capacity of what core::mem::take leaves behind: Default for
\* StaticRb<_, N> is a ring buffer of the same type, so of the same N
TakeCapacity(cap) == cap

\* The capacity of what the earlier revision's try_take leaves behind,
\* `let next = HeapRb::new(8)`
ReplaceCapacity(cap) == LegacyTakeCapacity

\* What the swap does apart from the capacity
TakeSwap ==
    /\ cpc = "take"
    /\ drained' = pending
    /\ pending' = TakeLeaves(pending)
    /\ dbatch' = batch
    /\ batch' = [i \in 1..Len(batch) |-> NoFields]
    /\ cpc' = "unlock"
    /\ UNCHANGED <<bindings, handles, damaged, status, cidx>>
    /\ UNCHANGED <<prodVars, renderVars, compVars>>
    /\ UNCHANGED <<accepted, consumed, ideal, committed>>

\* UpdateQueue::try_take, `Some(core::mem::take(updates.as_mut()))`
try_take_swap ==
    /\ TakeSwap
    /\ pcap' = TakeCapacity(pcap)

\* UpdateQueue::try_take of src/src/surface.rs,
\* `Some(core::mem::replace(updates.as_mut(), next))`
legacy_try_take_swap ==
    /\ TakeSwap
    /\ pcap' = ReplaceCapacity(pcap)

\* try_take returns and its guard is dropped; commit's loop starts
try_take_unlock ==
    /\ cpc = "unlock"
    /\ status' = 0
    /\ cidx' = 1
    /\ cpc' = "apply"
    /\ UNCHANGED <<bindings, handles, pending, damaged, drained>>
    /\ UNCHANGED <<prodVars, renderVars, ghostVars, auxVars>>

\* One iteration of `for update in queue.iter_mut()` in ShaderChain::commit
commit_apply ==
    /\ cpc = "apply"
    /\ cidx <= Len(drained)
    /\ LET update == drained[cidx] IN
        /\ bindings' = [bindings EXCEPT ![update.slot + 1] = ApplyUpdate(@, update)]
        /\ consumed' = [id \in DOMAIN consumed |->
                          IF id \in update.ids THEN consumed[id] + 1
                          ELSE consumed[id]]
    /\ cidx' = cidx + 1
    /\ UNCHANGED <<handles, pending, damaged, status, cpc, drained>>
    /\ UNCHANGED <<prodVars, renderVars, auxVars>>
    /\ UNCHANGED <<accepted, ideal, batch, dbatch, committed>>

\* commit's loop is over
CommitFinished == cpc = "apply" /\ cidx > Len(drained)

\* commit returns; the drained ring buffer is dropped
commit_return ==
    /\ CommitFinished
    /\ cpc' = "idle"
    /\ drained' = <<>>
    /\ cidx' = 0
    /\ dbatch' = [i \in 1..Len(dbatch) |-> NoFields]
    /\ committed' = bindings
    /\ UNCHANGED <<bindings, handles, pending, damaged, status>>
    /\ UNCHANGED <<prodVars, renderVars, auxVars>>
    /\ UNCHANGED <<accepted, consumed, ideal, batch>>

\* ------------------------------------- render task: new_surface, render_to
\* What new_surface does to the bindings and the slot of the handle it returns
NewSurfaceBindings(bs, area) == Append(bs, NewBinding(area))

\* Mutant of NewSurfaceSlot: the length is read after the binding is pushed
NewSurfaceSlotAfterPush(bs) == Len(bs) + 1

\* next_slot: the length of the list before the push
NewSurfaceSlot(bs) == Len(bs)

\* ShaderChain::new_surface (via BufferedSurfacePool::new_surface)
new_surface(area) ==
    /\ cpc = "idle"
    /\ bindings' = NewSurfaceBindings(bindings, area)
    /\ handles' = Append(handles, NewSurfaceSlot(bindings))
    /\ ideal' = Append(ideal, [shader |-> NoShader, rect |-> area, opacity |-> 255,
                               visible |-> TRUE, offset |-> 0])
    /\ batch' = Append(batch, NoFields)
    /\ dbatch' = Append(dbatch, NoFields)
    /\ committed' = bindings'
    /\ UNCHANGED <<pending, damaged, status>>
    /\ UNCHANGED <<prodVars, consVars, renderVars, auxVars>>
    /\ UNCHANGED <<accepted, consumed>>

AreaArgs == {everything}

call_new_surface ==
    /\ Len(bindings) < MaxSurfaces
    /\ \E area \in AreaArgs : new_surface(area)

\* Ids of the calls merged into the updates of a ring buffer
IdsOf(queue) == UNION { queue[i].ids : i \in 1..Len(queue) }

\* Ids of the calls that have returned Ok and wait in the FIFO
ReturnedPending ==
    IdsOf(pending) \ (IF ppc \in {"store", "unlock"} THEN pupd.ids ELSE {})

\* Mutant of RenderPrologue: render_to commits the pending FIFO first
RECURSIVE ApplyQueue(_, _, _)
ApplyQueue(bs, queue, k) ==
    IF k > Len(queue) THEN bs
    ELSE ApplyQueue([bs EXCEPT ![queue[k].slot + 1] = ApplyUpdate(@, queue[k])],
                    queue, k + 1)
RenderPrologueCommitting(bs) == ApplyQueue(bs, pending, 1)

\* What render_to does before its loop over the bindings: nothing, it reads
\* self.pool.bindings as they are
RenderPrologue(bs) == bs

\* BufferedSurfacePool::render_to, painting over the caller's buffer
render_to(output) ==
    /\ cpc = "idle"
    /\ Len(bindings) > 0
    /\ LET out == Render(RenderPrologue(bindings), output) IN
        /\ pixbuf' = out.buf
        /\ rlog' = out.log
        /\ rsampled' = out.sampled
    /\ rinput' = output
    /\ runapplied' = ReturnedPending
    /\ cpc' = "painted"
    /\ UNCHANGED <<bindings, handles, pending, damaged, status, drained, cidx>>
    /\ UNCHANGED <<prodVars, ghostVars, auxVars>>

call_render_to == render_to(Blank)

\* The frame is handed to the writer and the render loop blanks its buffer
\* for the next frame (`pixbuf = [Default::default(); NUM_LEDS]`)
frame_end ==
    /\ cpc = "painted"
    /\ cpc' = "idle"
    /\ pixbuf' = Blank
    /\ rlog' = <<>>
    /\ rsampled' = {}
    /\ rinput' = Blank
    /\ runapplied' = {}
    /\ UNCHANGED <<bindings, handles, pending, damaged, status, drained, cidx>>
    /\ UNCHANGED <<prodVars, ghostVars, auxVars>>

\* -------------------------------------------------------------------- Next
Next ==
    \/ call_clear_shader
    \/ call_set_rect
    \/ call_set_shader
    \/ call_set_opacity
    \/ call_set_visible
    \/ call_set_offset
    \/ push_lock
    \/ push_find
    \/ push_store
    \/ push_unlock
    \/ commit_load
    \/ try_take_lock
    \/ try_take_clear
    \/ try_take_swap
    \/ try_take_unlock
    \/ commit_apply
    \/ commit_return
    \/ call_new_surface
    \/ call_render_to
    \/ frame_end

Spec == Init /\ [][Next]_vars

\* The render task keeps running: between its frames it calls commit again
\* and again (strong fairness: painting a frame in between does not count as
\* giving commit up) and every step of commit is taken; a push that has
\* taken the lock runs to its end.  The producer is free to call the
\* mutators or not.
Fairness ==
    /\ SF_vars(commit_load)
    /\ WF_vars(try_take_lock)
    /\ WF_vars(try_take_clear)
    /\ WF_vars(try_take_swap)
    /\ WF_vars(try_take_unlock)
    /\ WF_vars(commit_apply)
    /\ WF_vars(commit_return)
    /\ WF_vars(frame_end)
    /\ WF_vars(push_find)
    /\ WF_vars(push_store)
    /\ WF_vars(push_unlock)

SpecLive == Init /\ [][Next]_vars /\ Fairness

\* ------------------------------------------- the capacity specification
\* One surface more than the FIFO holds, and set_visible only
cap_new_surface ==
    /\ Len(bindings) < CapSurfaces
    /\ new_surface(everything)
cap_set_visible ==
    /\ ncalls < CapCalls
    /\ \E s \in Slots, v \in BOOLEAN : mutator_call(set_visible(s, v))

NextCap ==
    \/ cap_new_surface
    \/ cap_set_visible
    \/ push_lock
    \/ push_find
    \/ push_store
    \/ push_unlock
    \/ commit_load
    \/ try_take_lock
    \/ try_take_clear
    \/ try_take_swap
    \/ try_take_unlock
    \/ commit_apply
    \/ commit_return

SpecCap == Init /\ [][NextCap]_vars

\* ------------------------- the queue of src/src/surface.rs (earlier revision)
\* impl Default for UpdateQueue: `AtomicMutex::new(HeapRb::new(16))`
InitLegacy == ChainDefault /\ pcap = LegacyCapacity /\ AuxInit

\* push, commit and the mutators are as in the later revision; try_take swaps
\* in a ring buffer built with HeapRb::new(8)
NextLegacy ==
    \/ cap_new_surface
    \/ cap_set_visible
    \/ push_lock
    \/ push_find
    \/ push_store
    \/ push_unlock
    \/ commit_load
    \/ try_take_lock
    \/ try_take_clear
    \/ legacy_try_take_swap
    \/ try_take_unlock
    \/ commit_apply
    \/ commit_return

SpecLegacy == InitLegacy /\ [][NextLegacy]_vars

\* -------------------------------------------- the surface specification
\* Surfaces over several areas, created while set_opacity calls and commits
\* are under way
SurfAreas == {everything, [left |-> 0, right |-> 1], [left |-> 1, right |-> 2]}
surf_new_surface ==
    /\ Len(bindings) < MaxSurfaces
    /\ \E area \in SurfAreas : new_surface(area)
surf_set_opacity ==
    /\ ncalls < MaxCalls
    /\ \E s \in Slots, o \in OpacityArgs : mutator_call(set_opacity(s, o))

NextSurf ==
    \/ surf_new_surface
    \/ surf_set_opacity
    \/ push_lock
    \/ push_find
    \/ push_store
    \/ push_unlock
    \/ commit_load
    \/ try_take_lock
    \/ try_take_clear
    \/ try_take_swap
    \/ try_take_unlock
    \/ commit_apply
    \/ commit_return

SpecSurf == Init /\ [][NextSurf]_vars

\* ------------------------------------------ the rendering specification
\* Every list of bindings the mutators and commit can produce (commit never
\* writes the offset, so it is top_left), painted over a blank or a lit buffer
RenderRects == {everything, [left |-> 0, right |-> 1], [left |-> 1, right |-> 2]}
RenderOpacities == {0, 128, 255}
RenderBindings ==
    [shader : {NoShader} \cup ShaderIds, rect : RenderRects,
     opacity : RenderOpacities, visible : BOOLEAN, offset : {top_left}]
\* Destination buffers of 1..PixelCount pixels, blank or already lit
InputBufs == UNION { { [i \in 1..n |-> v] : v \in {0, 7} } : n \in 1..PixelCount }

InitRender ==
    /\ \E n \in 1..MaxSurfaces : bindings \in [1..n -> RenderBindings]
    /\ handles = [i \in 1..Len(bindings) |-> i - 1]
    /\ pending = <<>>
    /\ damaged = FALSE
    /\ status = 0
    /\ ppc = "idle"
    /\ pupd = SurfaceUpdateDefault
    /\ presult = "none"
    /\ cpc = "idle"
    /\ drained = <<>>
    /\ cidx = 0
    /\ pixbuf = Blank
    /\ ncalls = 0
    /\ accepted = {}
    /\ consumed = [id \in CallIds |-> 0]
    /\ ideal = bindings
    /\ batch = [i \in 1..Len(bindings) |-> NoFields]
    /\ dbatch = [i \in 1..Len(bindings) |-> NoFields]
    /\ committed = bindings
    /\ rlog = <<>>
    /\ rsampled = {}
    /\ rinput = Blank
    /\ runapplied = {}
    /\ pcap = Capacity
    /\ AuxInit

render_any == \E output \in InputBufs : render_to(output)

NextRender ==
    \/ render_any
    \/ frame_end

SpecRender == InitRender /\ [][NextRender]_vars

\* ================================================= AtomicMutex (atomics.rs)
\* The variables of the surface engine
surfaceVars == <<bindings, handles, pending, damaged, status, pcap, prodVars,
                 consVars, renderVars, ghostVars>>
\* The variables the mutex tasks leave alone
nonMutexVars == <<surfaceVars, linearVars, virtVars, powerVars, brightVars, libVars>>

\* Mutant of compare_exchange: the exchange does not compare
compare_exchange_blind(word, current, new) == [ok |-> TRUE, word |-> new]

\* AtomicUsize::compare_exchange: one atomic step; ok tells Ok from Err and
\* word is the value the atomic holds afterwards
compare_exchange(word, current, new) ==
    IF word = current THEN [ok |-> TRUE, word |-> new]
    ELSE [ok |-> FALSE, word |-> word]

\* A task enters AtomicMutex::lock
mutex_lock_call(t) ==
    /\ tpc[t] = "idle"
    /\ tpc' = [tpc EXCEPT ![t] = "lock"]
    /\ UNCHANGED <<mstatus, tresult, inner, nonMutexVars>>

\* One iteration of lock's loop: try_lock, return the guard or go round again
mutex_lock_loop(t) ==
    /\ tpc[t] = "lock"
    /\ LET r == compare_exchange(mstatus, 0, 1) IN
        /\ mstatus' = r.word
        /\ tpc' = [tpc EXCEPT ![t] = IF r.ok THEN "guard" ELSE "lock"]
    /\ UNCHANGED <<tresult, inner, nonMutexVars>>

\* A task enters AtomicMutex::try_lock
mutex_try_lock_call(t) ==
    /\ tpc[t] = "idle"
    /\ tpc' = [tpc EXCEPT ![t] = "try"]
    /\ UNCHANGED <<mstatus, tresult, inner, nonMutexVars>>

\* AtomicMutex::try_lock: the compare-exchange and the Result built from it
mutex_try_lock(t) ==
    /\ tpc[t] = "try"
    /\ LET r == compare_exchange(mstatus, 0, 1) IN
        /\ mstatus' = r.word
        /\ tpc' = [tpc EXCEPT ![t] = IF r.ok THEN "guard" ELSE "idle"]
        /\ tresult' = [tresult EXCEPT ![t] = IF r.ok THEN "ok" ELSE "err"]
    /\ UNCHANGED <<inner, nonMutexVars>>

\* DerefMut for AtomicGuard: the holder writes the value behind the mutex
guard_deref_mut(t) ==
    /\ tpc[t] = "guard"
    /\ inner < MaxInner
    /\ inner' = inner + 1
    /\ UNCHANGED <<mstatus, tpc, tresult, nonMutexVars>>

\* Drop for AtomicGuard
guard_drop(t) ==
    /\ tpc[t] = "guard"
    /\ mstatus' = 0
    /\ tpc' = [tpc EXCEPT ![t] = "idle"]
    /\ UNCHANGED <<tresult, inner, nonMutexVars>>

NextMutex ==
    \/ \E t \in TaskIds : mutex_lock_call(t)
    \/ \E t \in TaskIds : mutex_lock_loop(t)
    \/ \E t \in TaskIds : mutex_try_lock_call(t)
    \/ \E t \in TaskIds : mutex_try_lock(t)
    \/ \E t \in TaskIds : guard_deref_mut(t)
    \/ \E t \in TaskIds : guard_drop(t)

SpecMutex == Init /\ [][NextMutex]_vars

\* Fair scheduling of the tasks around the mutex: a task inside lock keeps
\* going round its loop, a try_lock that was entered is carried out, and every
\* guard is eventually dropped.  Entering lock or try_lock, and writing
\* through the guard, are at the task's discretion.
FairnessMutex ==
    \A t \in TaskIds :
        /\ WF_vars(mutex_lock_loop(t))
        /\ WF_vars(mutex_try_lock(t))
        /\ WF_vars(guard_drop(t))

SpecMutexLive == Init /\ [][NextMutex]_vars /\ FairnessMutex

\* The iteration of lock's loop whose compare-exchange finds the word at 0
mutex_lock_acquire(t) == mstatus = 0 /\ mutex_lock_loop(t)

\* A scheduler that in addition lets a spinning task's compare-exchange fall
\* into one of the windows in which the word is 0, when such windows keep
\* coming
SpecMutexStrong ==
    SpecMutexLive /\ \A t \in TaskIds : SF_vars(mutex_lock_acquire(t))

\* ============================= slice sampler (figments/src/mappings/linear.rs)
\* test_gradient's buffer: pixel i is Rgb(i, 0, 0); only r and b are kept
Gradient(n) == [i \in 1..n |-> [r |-> i - 1, b |-> 0]]

\* What test_gradient's closure does with the yielded pairs: every pixel it
\* is handed gets its b channel set from the coordinate (x + 1, so that a
\* write to pixel 0 shows)
WriteThrough(buf, pairs) ==
    [i \in 1..Len(buf) |->
        IF \E k \in 1..Len(pairs) : pairs[k].index = i - 1
        THEN LET k == CHOOSE k \in 1..Len(pairs) : pairs[k].index = i - 1
             IN  [buf[i] EXCEPT !.b = pairs[k].x + 1]
        ELSE buf[i]]

\* Rectangles of LinearSpace with top_left.x <= bottom_right.x, and everything()
LinearRects ==
    { rc \in [left : 0..(MaxLinear + 1), right : 0..(MaxLinear + 1)] :
        rc.left <= rc.right } \cup {everything}

nonLinearVars == <<surfaceVars, mutexVars, virtVars, powerVars, brightVars, libVars>>

InitLinear ==
    /\ SurfaceInit /\ MutexInit /\ VirtIdle /\ PowerInit(0) /\ BrightIdle /\ LibIdle
    /\ lpc = "new"
    /\ lrect \in LinearRects
    /\ \E n \in 0..MaxLinear : lbuf = Gradient(n)
    /\ lpairs = <<>>

\* pixbuf.sample(rect), the pairs consumed by a loop that writes every pixel
linear_sample ==
    /\ lpc = "new"
    /\ lpairs' = SampleSeq(Len(lbuf), lrect)
    /\ lbuf' = WriteThrough(lbuf, lpairs')
    /\ lpc' = "sampled"
    /\ UNCHANGED <<lrect, nonLinearVars>>

NextLinear == linear_sample

SpecLinear == InitLinear /\ [][NextLinear]_vars

\* ================== virtual-space linear mapper (figments/src/mappings.rs)
\* u8::scale8 (src/liber8tion/interpolate.rs), borrowed from FastLED
scale8(i, scale) ==
    IF scale = 0 THEN 0
    ELSE IF scale = 255 THEN i
    ELSE (i * (1 + scale)) \div 256

\* Rectangles of the Virtual space (u8 coordinates) with left <= right
VirtEdges == {0, 64, 128, 192, 255}
VirtRects == { rc \in [left : VirtEdges, right : VirtEdges] : rc.left <= rc.right }

nonVirtVars == <<surfaceVars, mutexVars, linearVars, powerVars, brightVars, libVars>>

InitVirt ==
    /\ SurfaceInit /\ MutexInit /\ LinearIdle /\ PowerInit(0) /\ BrightIdle /\ LibIdle
    /\ vpc = "new"
    /\ vsize \in 1..MaxVirt
    /\ vrect \in VirtRects
    /\ vpairs = <<>>
    /\ view = NoView

\* LinearSampleView::new: the index range the rectangle scales to
LinearSampleViewNew(pixel_count, rect) ==
    LET pixcount == pixel_count - 1
        start_idx == scale8(pixcount % 256, rect.left)
        end_idx == scale8(pixcount % 256, rect.right)
    IN  [start_idx |-> start_idx, end_idx |-> end_idx,
         length |-> usize_sub(end_idx, start_idx), offset |-> 0]

\* The virtual x next reports: 255 * (cur_idx / length), cast to u8 (the
\* cast truncates and saturates at 255)
VirtX(v) == Min(255, (255 * (v.start_idx + v.offset)) \div v.length)

virt_new ==
    /\ vpc = "new"
    /\ LET v == LinearSampleViewNew(vsize, vrect) IN
       IF build = "debug" /\ v.end_idx < v.start_idx
       THEN /\ vpc' = "panic"
            /\ UNCHANGED view
       ELSE /\ view' = v
            /\ vpc' = "iter"
    /\ UNCHANGED <<vsize, vrect, vpairs, nonVirtVars>>

\* LinearSampleView::next, also when called again after it returned None;
\* self.pixbuf[cur_idx] panics past the end of the buffer
virt_next ==
    /\ vpc \in {"iter", "done"}
    /\ IF view.offset + view.start_idx = view.end_idx
       THEN /\ vpc' = "done"
            /\ UNCHANGED <<view, vpairs>>
       ELSE IF view.start_idx + view.offset >= vsize
       THEN /\ vpc' = "panic"
            /\ view' = [view EXCEPT !.offset = @ + 1]
            /\ UNCHANGED vpairs
       ELSE /\ vpairs' = Append(vpairs, [index |-> view.start_idx + view.offset,
                                         virt |-> VirtX(view)])
            /\ view' = [view EXCEPT !.offset = @ + 1]
            /\ vpc' = "iter"
    /\ UNCHANGED <<vsize, vrect, nonVirtVars>>

NextVirt ==
    \/ virt_new
    \/ virt_next

SpecVirt == InitVirt /\ [][NextVirt]_vars

\* Every rectangle Rectangle::new builds, inverted ones included, in either
\* build, and the caller keeps calling next
VirtRectsAll == [left : VirtEdges, right : VirtEdges]

InitVirtAll ==
    /\ SurfaceInit /\ MutexInit /\ LinearIdle /\ PowerInit(0) /\ BrightIdle
    /\ BuilderIdle /\ StrideIdle /\ RotIdle /\ BlendIdle
    /\ build \in {"debug", "release"}
    /\ vpc = "new"
    /\ vsize \in 1..MaxVirt
    /\ vrect \in VirtRectsAll
    /\ vpairs = <<>>
    /\ view = NoView

SpecVirtLive ==
    InitVirtAll /\ [][NextVirt]_vars /\ WF_vars(virt_new) /\ WF_vars(virt_next)

\* ===================== brightness_for_mw (figments-render/src/power.rs)
\* (total_mw * target32) / 256 in u32: the product wraps at 2^32.  The
\* product is kept as two 16-bit halves (hi, lo) so that no intermediate
\* value exceeds 32 bits.
requested_mw(total_mw, target32) ==
    LET lo == (total_mw % 65536) * target32
        hi == ((total_mw \div 65536) * target32 + lo \div 65536) % 65536
    IN  hi * 256 + (lo % 65536) \div 256

\* Mutant of brightness_for_mw: the total, not the requested power, is
\* compared with the ceiling
brightness_for_mw_total(total_mw, target, max_power) ==
    IF total_mw > max_power
    THEN ((target * max_power) \div total_mw) % 256
    ELSE target

\* brightness_for_mw; `as u8` keeps the low 8 bits
brightness_for_mw(total_mw, target, max_power) ==
    LET requested == requested_mw(total_mw, target) IN
    IF requested > max_power
    THEN ((target * max_power) \div requested) % 256
    ELSE target

\* Arguments: every small total and ceiling, a strip of a few hundred
\* pixels, and totals around 2^32 / 255, where total_mw * 255 reaches 2^32
TotalArgs == (0..MaxSmallMw) \cup {300, 1000, 20000, 16843009, 16843010}
CeilingArgs == (0..MaxSmallMw) \cup {200, 949, 19843, 1000000}
TargetArgs == {0, 1, 2, 128, 253, 254, 255}

nonBrightVars == <<surfaceVars, mutexVars, linearVars, virtVars, powerVars, libVars>>

InitBright ==
    /\ SurfaceInit /\ MutexInit /\ LinearIdle /\ VirtIdle /\ PowerInit(0) /\ LibIdle
    /\ btotal \in TotalArgs
    /\ btarget \in TargetArgs
    /\ bmax \in CeilingArgs
    /\ bout = <<>>

bright_call ==
    /\ bout = <<>>
    /\ bout' = <<brightness_for_mw(btotal, btarget, bmax)>>
    /\ UNCHANGED <<btotal, btarget, bmax, nonBrightVars>>

NextBright == bright_call

SpecBright == InitBright /\ [][NextBright]_vars

\* ============== power-managed output (figments-render/src/smart_leds.rs)
\* GammaCurve::gamma_for_value for the two curves of the model: gamma 1.0
\* (GammaCurve::default) and gamma 2.0, ((v / 255)^gamma * 255 + 0.5) as u8
gamma_for_value(value, curve) ==
    IF curve = "default" THEN value
    ELSE (2 * value * value + 255) \div 510
GammaArgs == {"default", "square"}

\* WithGamma for Rgb<u8>
with_gamma(pixel, curve) ==
    [r |-> gamma_for_value(pixel.r, curve),
     g |-> gamma_for_value(pixel.g, curve),
     b |-> gamma_for_value(pixel.b, curve)]

\* Fract8Ops::scale8 for Rgb<u8>
scale8_rgb(pixel, scale) ==
    [r |-> scale8(pixel.r, scale), g |-> scale8(pixel.g, scale),
     b |-> scale8(pixel.b, scale)]

\* AsMilliwatts for Rgb
as_milliwatts(pixel) ==
    (pixel.r * RED_MW) \div 256 + (pixel.g * GREEN_MW) \div 256
        + (pixel.b * BLUE_MW) \div 256 + DARK_MW

\* AsMilliwatts for [T]: the sum over the pixels
RECURSIVE slice_as_milliwatts(_)
slice_as_milliwatts(pixels) ==
    IF pixels = <<>> THEN 0
    ELSE as_milliwatts(Head(pixels)) + slice_as_milliwatts(Tail(pixels))

\* PowerControls::iter_brightness: the power of the gamma-corrected frame
\* (stored in cur_mw) and the pixels the returned iterator yields
iter_brightness_mw(c, frame) ==
    slice_as_milliwatts([i \in 1..Len(frame) |-> with_gamma(frame[i], c.gamma_curve)])
iter_brightness(c, frame) ==
    LET b == brightness_for_mw(iter_brightness_mw(c, frame), c.brightness, c.max_mw)
    IN  [i \in 1..Len(frame) |-> scale8_rgb(with_gamma(frame[i], c.gamma_curve), b)]

\* Mutant of WritePixels: the off branch is brightness-managed as well
WritePixelsAlwaysOn(c, frame) == iter_brightness(c, frame)

\* The iterator PowerManagedWriter::write hands to the sink
WritePixels(c, frame) ==
    IF c.is_on THEN iter_brightness(c, frame)
    ELSE [i \in 1..Len(frame) |-> scale8_rgb(frame[i], 0)]

\* Mutant of WriteOutcome: a failed write is tried again and reported Ok
WriteOutcomeRetry(first) ==
    [calls |-> IF first = "ok" THEN 1 ELSE 2, result |-> "ok"]

\* What write makes of the sink: one call, its result handed back
WriteOutcome(first) == [calls |-> 1, result |-> first]

\* What the sink's write may return: Ok(()) or one of its errors
SinkResults == {"ok", "err_timeout", "err_bus"}

\* Pixels and frames written, ceilings and target brightnesses configured
PixelArgs == {[r |-> 0, g |-> 0, b |-> 0], [r |-> 255, g |-> 255, b |-> 255],
              [r |-> 10, g |-> 0, b |-> 0]}
FrameArgs == UNION { [1..n -> PixelArgs] : n \in 0..MaxFrame }
MaxMwArgs == {12, 100}
BrightnessArgs == {128}

nonPowerVars == <<surfaceVars, mutexVars, linearVars, virtVars, brightVars, libVars>>

InitPower ==
    /\ SurfaceInit /\ MutexInit /\ LinearIdle /\ VirtIdle /\ BrightIdle /\ LibIdle
    /\ \E max_mw \in MaxMwArgs : PowerInit(max_mw)

\* Brightness::set_brightness
power_set_brightness ==
    /\ \E brightness \in BrightnessArgs :
        controls' = [controls EXCEPT !.brightness = brightness]
    /\ UNCHANGED <<wframe, sunk, sinkcalls, sinkresult, wresult, wmodes, nonPowerVars>>

\* Brightness::set_on
power_set_on ==
    /\ \E is_on \in BOOLEAN : controls' = [controls EXCEPT !.is_on = is_on]
    /\ UNCHANGED <<wframe, sunk, sinkcalls, sinkresult, wresult, wmodes, nonPowerVars>>

\* GammaCorrected::set_gamma
power_set_gamma ==
    /\ \E gamma \in GammaArgs : controls' = [controls EXCEPT !.gamma_curve = gamma]
    /\ UNCHANGED <<wframe, sunk, sinkcalls, sinkresult, wresult, wmodes, nonPowerVars>>

\* PowerManagedWriter::write: the sink consumes the iterator and returns
power_write ==
    /\ Len(wmodes) < MaxWrites
    /\ \E frame \in FrameArgs, first \in SinkResults :
        /\ wframe' = frame
        /\ controls' = IF controls.is_on
                       THEN [controls EXCEPT !.cur_mw = iter_brightness_mw(controls, frame)]
                       ELSE controls
        /\ sunk' = WritePixels(controls, frame)
        /\ sinkcalls' = sinkcalls + WriteOutcome(first).calls
        /\ sinkresult' = first
        /\ wresult' = WriteOutcome(first).result
        /\ wmodes' = Append(wmodes, controls.is_on)
    /\ UNCHANGED nonPowerVars

NextPower ==
    \/ power_set_brightness
    \/ power_set_on
    \/ power_set_gamma
    \/ power_write

SpecPower == InitPower /\ [][NextPower]_vars

\* ===================== stride mapping (figments/src/mappings/stride.rs)
\* Rectangle::width / height on usize coordinates, release arithmetic
rect_width(r) == usize_sub(r.bottom_right.x, r.top_left.x)
rect_height(r) == usize_sub(r.bottom_right.y, r.top_left.y)

\* The length of StrideMapping.strides: `const STRIDE_NUM: usize = 64`
STRIDE_NUM == 64

\* Stride::default(): the unused entries of StrideMapping.strides
StrideDefault ==
    [length |-> 0, x |-> 0, y |-> 0, reverse |-> FALSE, physical_idx |-> 0]

\* One step of from_json's loop: entry k of stride_json goes into strides,
\* physical_idx advances by its length, size grows to cover its column
RECURSIVE from_json_loop(_, _)
from_json_loop(stride_json, k) ==
    IF k = 0
    THEN [strides |-> <<>>, physical_idx |-> 0, size |-> <<>>]
    ELSE LET acc == from_json_loop(stride_json, k - 1)
             j == stride_json[k]
             stride == [length |-> j.length, x |-> j.x, y |-> j.y,
                        reverse |-> j.reverse, physical_idx |-> acc.physical_idx]
             size == IF acc.size = <<>>
                     THEN [top_left |-> [x |-> j.x, y |-> j.y],
                           bottom_right |-> [x |-> j.x, y |-> j.y + j.length - 1]]
                     ELSE LET sz == acc.size[1] IN
                          [top_left |-> [x |-> Min(sz.top_left.x, j.x),
                                         y |-> Min(sz.top_left.y, j.y)],
                           bottom_right |->
                               [x |-> Max(sz.bottom_right.x, j.x),
                                y |-> Max(sz.bottom_right.y, j.y + j.length - 1)]]
         IN  [strides |-> Append(acc.strides, stride),
              physical_idx |-> acc.physical_idx + j.length,
              size |-> <<size>>]

\* StrideMapping::from_json
from_json(stride_json) ==
    LET acc == from_json_loop(stride_json, Len(stride_json))
    IN  [strides |-> acc.strides, pixel_count |-> acc.physical_idx,
         size |-> acc.size[1]]

\* self.map.strides[x] for x < STRIDE_NUM: the entries past stride_count are
\* Stride::default()
StrideAt(map, x) ==
    IF x + 1 <= Len(map.strides) THEN map.strides[x + 1] ELSE StrideDefault

\* Stride::pixel_idx_for_offset (a negative value is an underflow)
pixel_idx_for_offset(stride, offset) ==
    IF stride.reverse
    THEN stride.physical_idx + stride.length + stride.y - 1 - offset
    ELSE stride.physical_idx + offset

\* StrideView::new: the window of StrideSpace the rectangle scales to
StrideViewRange(map, rect) ==
    [top_left |->
        [x |-> scale8(rect_width(map.size) % 256, rect.top_left.x) + map.size.top_left.x,
         y |-> scale8(rect_height(map.size) % 256, rect.top_left.y) + map.size.top_left.y],
     bottom_right |->
        [x |-> scale8(rect_width(map.size) % 256, rect.bottom_right.x) + map.size.top_left.x,
         y |-> scale8(rect_height(map.size) % 256, rect.bottom_right.y) + map.size.top_left.y]]

\* StrideView::new's debug_assert!
RangeInBounds(map, range) ==
    /\ range.bottom_right.x <= rect_width(map.size)
    /\ range.bottom_right.y <= rect_height(map.size)

\* The while loop of StrideView::next from self.cur on: the cell it returns,
\* if any, and self.cur as it leaves it; oob: `self.map.strides[self.cur.x]`
\* was indexed past the array
RECURSIVE StrideScan(_, _, _)
StrideScan(map, range, cur) ==
    IF ~(rect_height(range) > 0 /\ cur.x <= range.bottom_right.x)
    THEN [some |-> FALSE, oob |-> FALSE, coords |-> cur, cur |-> cur]
    ELSE IF cur.x >= STRIDE_NUM
    THEN [some |-> FALSE, oob |-> TRUE, coords |-> cur, cur |-> cur]
    ELSE LET cur_stride == StrideAt(map, cur.x)
             y == IF cur.y < cur_stride.y THEN cur_stride.y ELSE cur.y
         IN  IF \/ y > range.bottom_right.y + 1
                \/ y > cur_stride.y + cur_stride.length
             THEN StrideScan(map, range, [x |-> cur.x + 1, y |-> range.top_left.y])
             ELSE [some |-> TRUE, oob |-> FALSE, coords |-> [x |-> cur.x, y |-> y],
                   cur |-> [x |-> cur.x, y |-> y + 1]]

\* (255f32 * ((p - lo) as f32 / (extent + 1) as f32)) as u8: the cast
\* truncates, saturates, and sends NaN (0 / 0, when extent + 1 wraps) to 0
StridePct(p, lo, extent) ==
    IF extent = UsizeMax
    THEN IF p = lo THEN 0 ELSE 255
    ELSE Min(255, (255 * (p - lo)) \div (extent + 1))

\* ------------------------------------------------------------ inputs
MaxSegs == 2
MaxRow == 1
MaxSegLen == 2

\* stride_json: column k of the display is entry k
SegArgs == [y : 0..MaxRow, length : 1..MaxSegLen, reverse : BOOLEAN]
StrideJsons ==
    UNION { { [k \in 1..n |-> [x |-> k - 1, y |-> f[k].y, length |-> f[k].length,
                               reverse |-> f[k].reverse]] : f \in [1..n -> SegArgs] }
            : n \in 1..MaxSegs }

\* Rectangles of the Virtual space, inverted ones included
StrideCorners == [x : {0, 255}, y : {0, 128, 255}]
StrideRects == [top_left : StrideCorners, bottom_right : StrideCorners]
Everything2 == [top_left |-> [x |-> 0, y |-> 0], bottom_right |-> [x |-> 255, y |-> 255]]

Builds == {"debug", "release"}

nonStrideVars == <<surfaceVars, mutexVars, linearVars, virtVars, powerVars,
                   brightVars, build, builderVars, rotVars, blendVars>>

\* A mapping from_json built, a buffer of pixel_count pixels or (as in
\* test_full_range_sample) one more, and the rectangle to sample
InitStride ==
    /\ SurfaceInit /\ MutexInit /\ LinearIdle /\ VirtIdle /\ PowerInit(0)
    /\ BrightIdle /\ BuilderIdle /\ RotIdle /\ BlendIdle
    /\ build \in Builds
    /\ \E j \in StrideJsons : smap = from_json(j)
    /\ srect \in StrideRects
    /\ sbuflen \in {smap.pixel_count, smap.pixel_count + 1}
    /\ sview = NoStrideView
    /\ spc = "new"
    /\ syield = <<>>

\* StrideView::new
stride_new ==
    /\ spc = "new"
    /\ LET range == StrideViewRange(smap, srect) IN
       IF build = "debug" /\ ~RangeInBounds(smap, range)
       THEN /\ spc' = "panic"
            /\ UNCHANGED sview
       ELSE /\ sview' = [range |-> range, cur |-> range.top_left]
            /\ spc' = "iter"
    /\ UNCHANGED <<smap, srect, sbuflen, syield, nonStrideVars>>

\* StrideView::next, also when called again after it returned None
stride_next ==
    /\ spc \in {"iter", "done"}
    /\ LET range == sview.range
           res == StrideScan(smap, range, sview.cur)
           idx == pixel_idx_for_offset(StrideAt(smap, res.coords.x), res.coords.y)
       IN  IF build = "debug" /\ range.bottom_right.y < range.top_left.y
           THEN /\ spc' = "panic"
                /\ UNCHANGED <<sview, syield>>
           ELSE /\ sview' = [sview EXCEPT !.cur = res.cur]
                /\ IF res.oob
                   THEN /\ spc' = "panic"
                        /\ UNCHANGED syield
                   ELSE IF ~res.some
                   THEN /\ spc' = "done"
                        /\ UNCHANGED syield
                   ELSE IF idx < 0 \/ idx >= sbuflen
                   THEN /\ spc' = "panic"
                        /\ UNCHANGED syield
                   ELSE /\ spc' = "iter"
                        /\ syield' = Append(syield,
                              [x |-> res.coords.x, y |-> res.coords.y, idx |-> idx,
                               virt |-> [x |-> StridePct(res.coords.x, range.top_left.x,
                                                         rect_width(range)),
                                         y |-> StridePct(res.coords.y, range.top_left.y,
                                                         rect_height(range))]])
    /\ UNCHANGED <<smap, srect, sbuflen, nonStrideVars>>

NextStride ==
    \/ stride_new
    \/ stride_next

SpecStride == InitStride /\ [][NextStride]_vars

\* stride_json with the columns declared in any order and with any distinct
\* x, STRIDE_NUM among them
ColumnArgs == {0, 1, STRIDE_NUM}
StrideJsonsAny ==
    UNION { { [k \in 1..n |-> [x |-> c[k], y |-> f[k].y, length |-> f[k].length,
                               reverse |-> f[k].reverse]] :
                f \in [1..n -> SegArgs],
                c \in { d \in [1..n -> ColumnArgs] :
                            \A i, j \in 1..n : i # j => d[i] # d[j] } }
            : n \in 1..MaxSegs }

InitStrideAny ==
    /\ SurfaceInit /\ MutexInit /\ LinearIdle /\ VirtIdle /\ PowerInit(0)
    /\ BrightIdle /\ BuilderIdle /\ RotIdle /\ BlendIdle
    /\ build \in Builds
    /\ \E j \in StrideJsonsAny : smap = from_json(j)
    /\ srect \in StrideRects
    /\ sbuflen \in {smap.pixel_count, smap.pixel_count + 1}
    /\ sview = NoStrideView
    /\ spc = "new"
    /\ syield = <<>>

SpecStrideAny == InitStrideAny /\ [][NextStride]_vars

\* The caller keeps calling next
SpecStrideLive ==
    InitStride /\ [][NextStride]_vars /\ WF_vars(stride_new) /\ WF_vars(stride_next)

\* ================================ rotation (figments/src/geometry.rs)
\* CoordinateOp::MAX of the space's scalar: u8 for Virtual, usize otherwise
Spaces == {"Virtual", "StrideSpace"}
SpaceMax(space) == IF space = "Virtual" THEN 255 ELSE UsizeMax

\* Coordinates::rotated with the arm of rotation 3 also taken for rotation 1
coord_rotated_lossy(space, self, rotation) ==
    IF rotation % 4 \in {1, 3}
    THEN [x |-> SpaceMax(space) - self.y, y |-> SpaceMax(space) - self.y]
    ELSE IF rotation % 4 = 2
    THEN [x |-> SpaceMax(space) - self.y, y |-> SpaceMax(space) - self.x]
    ELSE [x |-> self.x, y |-> self.y]

\* Coordinates::rotated
coord_rotated(space, self, rotation) ==
    IF rotation % 4 = 1
    THEN [x |-> self.y, y |-> self.x]
    ELSE IF rotation % 4 = 2
    THEN [x |-> SpaceMax(space) - self.y, y |-> SpaceMax(space) - self.x]
    ELSE IF rotation % 4 = 3
    THEN [x |-> SpaceMax(space) - self.y, y |-> SpaceMax(space) - self.y]
    ELSE [x |-> self.x, y |-> self.y]

\* Rectangle::rotated
rect_rotated(space, self, rotation) ==
    LET a == coord_rotated(space, self.top_left, rotation)
        b == coord_rotated(space, self.bottom_right, rotation)
    IN  [top_left |-> [x |-> Min(a.x, b.x), y |-> Min(a.y, b.y)],
         bottom_right |-> [x |-> Max(a.x, b.x), y |-> Max(a.y, b.y)]]

\* ------------------------------------------------------------ inputs
MaxTurns == 4

\* Rectangle::new takes any two corners, inverted rectangles included
RotCorners(space) ==
    [x : {0, 1, SpaceMax(space)}, y : {0, 1, SpaceMax(space)}]
RotRects(space) == [top_left : RotCorners(space), bottom_right : RotCorners(space)]
RotationArgs == 0..MaxTurns

nonRotVars == <<surfaceVars, mutexVars, linearVars, virtVars, powerVars,
                brightVars, build, builderVars, strideVars, blendVars>>

InitRot ==
    /\ SurfaceInit /\ MutexInit /\ LinearIdle /\ VirtIdle /\ PowerInit(0)
    /\ BrightIdle /\ BuilderIdle /\ StrideIdle /\ BlendIdle
    /\ build = "release"
    /\ gspace \in Spaces
    /\ gorig \in RotRects(gspace)
    /\ grect = gorig
    /\ gturns = <<>>

\* rect = rect.rotated(rotation)
rot_call ==
    /\ Len(gturns) < MaxTurns
    /\ \E rotation \in RotationArgs :
          /\ grect' = rect_rotated(gspace, grect, rotation)
          /\ gturns' = Append(gturns, rotation)
    /\ UNCHANGED <<gspace, gorig, nonRotVars>>

NextRot == rot_call

SpecRot == InitRot /\ [][NextRot]_vars

\* ==================== blend8 (figments/src/liber8tion/interpolate.rs)
\* The colour structs fract8_color_impl! covers, and the u8 of one channel
Formats == {"u8", "Rgb", "Grb", "Bgr", "Rgba", "Bgra", "GrayA"}
Channels(fmt) ==
    IF fmt = "u8" THEN {"v"}
    ELSE IF fmt \in {"Rgb", "Grb", "Bgr"} THEN {"r", "g", "b"}
    ELSE IF fmt \in {"Rgba", "Bgra"} THEN {"r", "g", "b", "a"}
    ELSE {"a", "v"}

\* A blend that adds the scaled other channel in 8 bits
blend8_color_wrapping(fmt, self, other, scale) ==
    [c \in Channels(fmt) |-> (self[c] + (other[c] * (1 + scale)) \div 256) % 256]

\* Fract8Ops::blend8 of a colour struct: blend8 of every component
blend8_color(fmt, self, other, scale) ==
    [c \in Channels(fmt) |-> blend8(self[c], other[c], scale)]

\* ------------------------------------------------------------ inputs
\* Every byte for the single channel, three levels per channel of a struct
ChannelArgs(fmt) == IF fmt = "u8" THEN 0..255 ELSE {0, 100, 255}
ScaleArgs == {0, 1, 128, 254, 255}

nonBlendVars == <<surfaceVars, mutexVars, linearVars, virtVars, powerVars,
                  brightVars, build, builderVars, strideVars, rotVars>>

InitBlend ==
    /\ SurfaceInit /\ MutexInit /\ LinearIdle /\ VirtIdle /\ PowerInit(0)
    /\ BrightIdle /\ BuilderIdle /\ StrideIdle /\ RotIdle
    /\ build = "release"
    /\ nfmt \in Formats
    /\ na \in [Channels(nfmt) -> ChannelArgs(nfmt)]
    /\ nb \in [Channels(nfmt) -> ChannelArgs(nfmt)]
    /\ nscale \in ScaleArgs
    /\ nout = <<>>

\* a.blend8(b, scale)
blend_call ==
    /\ nout = <<>>
    /\ nout' = <<blend8_color(nfmt, na, nb, nscale)>>
    /\ UNCHANGED <<nfmt, na, nb, nscale, nonBlendVars>>

NextBlend == blend_call

SpecBlend == InitBlend /\ [][NextBlend]_vars

\* blend8 on single bytes: every self, every fraction, and for other the
\* bytes at and next to the ends and the middle of the range
Fract8Args == 0..255
OtherArgs == {0, 1, 127, 128, 254, 255}
InitBlend8 ==
    /\ SurfaceInit /\ MutexInit /\ LinearIdle /\ VirtIdle /\ PowerInit(0)
    /\ BrightIdle /\ BuilderIdle /\ StrideIdle /\ RotIdle
    /\ build = "release"
    /\ nfmt = "u8"
    /\ na \in [Channels(nfmt) -> 0..255]
    /\ nb \in [Channels(nfmt) -> OtherArgs]
    /\ nscale \in Fract8Args
    /\ nout = <<>>

SpecBlend8 == InitBlend8 /\ [][NextBlend]_vars

\* ==================================== SurfaceBuilder (figments/src/surface.rs)
nonBuilderVars == <<surfaceVars, mutexVars, linearVars, virtVars, powerVars,
                    brightVars, build, strideVars, rotVars, blendVars>>

\* What the chained setters of the builder can leave in it
BuilderArgs ==
    [rect : {<<>>} \cup { <<r>> : r \in RectArgs },
     opacity : {<<>>} \cup { <<o>> : o \in OpacityArgs },
     shader : {<<>>} \cup { <<t>> : t \in ShaderArgs },
     visible : {<<>>} \cup { <<v>> : v \in BOOLEAN }]

\* A finish that always asks for a surface over everything()
FinishAreaEverything(cfg) == everything

\* finish, `match self.rect { None => Rectangle::everything(), Some(r) => r }`
FinishArea(cfg) == IF cfg.rect = <<>> THEN everything ELSE cfg.rect[1]

\* The number of mutator calls finish makes for the first k of opacity,
\* shader, visible
FinishCalls(cfg, k) ==
    (IF k >= 1 /\ cfg.opacity # <<>> THEN 1 ELSE 0)
    + (IF k >= 2 /\ cfg.shader # <<>> THEN 1 ELSE 0)
    + (IF k >= 3 /\ cfg.visible # <<>> THEN 1 ELSE 0)

\* finish has got its surface from new_surface and made the calls for the
\* first k of opacity, shader, visible, and the last of them has returned
FinishAt(k) ==
    /\ bpc = "built"
    /\ Len(bindings) = bbase + 1
    /\ ppc = "idle"
    /\ ncalls = bfirst + FinishCalls(bcfg, k)

\* SurfaceBuilder::build(&mut surfaces) and the chained setters: the builder
\* borrows the pool, so no commit is under way and none starts before finish
\* returns
builder_build ==
    /\ bpc # "built"
    /\ cpc = "idle"
    /\ ppc = "idle"
    /\ Len(bindings) < MaxSurfaces
    /\ ncalls + 3 <= MaxCalls + CapCalls
    /\ bpc' = "built"
    /\ bcfg' \in BuilderArgs
    /\ bbase' = Len(bindings)
    /\ bfirst' = ncalls
    /\ UNCHANGED nonBuilderVars

\* finish, `self.surfaces.new_surface(..)`
finish_new_surface ==
    /\ bpc = "built"
    /\ Len(bindings) = bbase
    /\ new_surface(FinishArea(bcfg))

\* finish, `if self.opacity.is_some() { s.set_opacity(..) }`
finish_set_opacity ==
    /\ FinishAt(0)
    /\ bcfg.opacity # <<>>
    /\ mutator_call(set_opacity(handles[Len(handles)], bcfg.opacity[1]))

\* finish, `if self.shader.is_some() { s.set_shader(..) }`
finish_set_shader ==
    /\ FinishAt(1)
    /\ bcfg.shader # <<>>
    /\ mutator_call(set_shader(handles[Len(handles)], bcfg.shader[1]))

\* finish, `if self.visible.is_some() { s.set_visible(..) }`
finish_set_visible ==
    /\ FinishAt(2)
    /\ bcfg.visible # <<>>
    /\ mutator_call(set_visible(handles[Len(handles)], bcfg.visible[1]))

\* finish, `Ok(s)`
finish_return ==
    /\ FinishAt(3)
    /\ bpc' = "returned"
    /\ UNCHANGED <<bcfg, bbase, bfirst, nonBuilderVars>>

\* The owner of the pool turns to BufferedSurfacePool::commit
pool_commit ==
    /\ bpc = "returned"
    /\ bpc' = "used"
    /\ UNCHANGED <<bcfg, bbase, bfirst, nonBuilderVars>>

\* commit is entered, the pool not being borrowed by a builder
builder_commit_load ==
    /\ bpc \in {"none", "used"}
    /\ commit_load

NextBuilder ==
    \/ builder_build
    \/ finish_new_surface
    \/ finish_set_opacity
    \/ finish_set_shader
    \/ finish_set_visible
    \/ finish_return
    \/ pool_commit
    \/ push_lock
    \/ push_find
    \/ push_store
    \/ push_unlock
    \/ builder_commit_load
    \/ try_take_lock
    \/ try_take_clear
    \/ try_take_swap
    \/ try_take_unlock
    \/ commit_apply
    \/ commit_return

SpecBuilder == Init /\ [][NextBuilder]_vars

TypeOK ==
    /\ status \in {0, 1}
    /\ damaged \in BOOLEAN
    /\ Len(pending) <= pcap
    /\ pcap \in {Capacity, LegacyCapacity, LegacyTakeCapacity}
    /\ Len(bindings) <= CapSurfaces + MaxSurfaces

\* ================================================================== claims
Fields == {"shader", "rect", "opacity", "visible", "offset"}
MaxOf(S) == CHOOSE m \in S : \A n \in S : n <= m

\* Nothing is in flight: both tasks are between calls and the FIFO is empty
Quiescent ==
    /\ cpc = "idle"
    /\ ppc \in {"idle", "panicked"}
    /\ pending = <<>>

\* C1: in every reachable state the pending FIFO holds at most one update for
\* any slot.
C1_AtMostOnePerSlot ==
    \A i, j \in 1..Len(pending) : i # j => pending[i].slot # pending[j].slot

\* Two slots are pending and a second call was merged into one of them.
C1_Witness ==
    /\ Len(pending) = 2
    /\ \E i \in 1..Len(pending) : Cardinality(pending[i].ids) >= 2

\* C2: the mutators never modify the bindings: outside commit's loop every
\* binding is exactly what the last commit (or new_surface) left, and a
\* surface no commit has touched is visible with opacity 255.
C2_MutatorsLeaveBindings ==
    /\ cpc # "apply" => bindings = committed
    /\ (\A id \in CallIds : consumed[id] = 0) =>
            \A k \in 1..Len(bindings) :
                bindings[k].visible /\ bindings[k].opacity = 255

\* set_visible(false) and set_opacity(128) have both returned, no commit has
\* run, and the binding is still visible with opacity 255.
C2_Witness ==
    /\ cpc = "idle"
    /\ ppc = "idle"
    /\ \E i \in 1..Len(pending) :
        /\ pending[i].visible = <<FALSE>>
        /\ pending[i].opacity = <<128>>
        /\ bindings[pending[i].slot + 1].visible
        /\ bindings[pending[i].slot + 1].opacity = 255

\* C3: when commit's loop is over, every field (shader, rectangle, opacity,
\* visibility, offset) touched by a call since the previous swap has the value
\* of the last call that touched it and every other field its pre-commit value.
C3_LastWritePerField ==
    CommitFinished =>
        \A k \in 1..Len(bindings) :
            bindings[k] = DirectApply(committed[k], dbatch[k])

\* The same for the four fields commit's loop writes (not a claim's formula).
FourFieldsLastWrite ==
    CommitFinished =>
        \A k \in 1..Len(bindings) :
            bindings[k] = [DirectApply(committed[k], dbatch[k])
                             EXCEPT !.offset = committed[k].offset]

\* The hand-off of the FIFO alone: every accepted call is in exactly one of
\* the pending FIFO, the drained FIFO not yet looped over, or the updates the
\* loop has taken, and the loop takes none twice (not a claim's formula).
DrainedTodo ==
    UNION { drained[k].ids : k \in { n \in 1..Len(drained) : n >= cidx } }
HandOffExactlyOnce ==
    /\ IdsOf(pending) \cap DrainedTodo = {}
    /\ \A id \in accepted :
        /\ id \in IdsOf(pending) \cup DrainedTodo => consumed[id] = 0
        /\ id \notin IdsOf(pending) \cup DrainedTodo => consumed[id] = 1
    /\ \A id \in CallIds \ accepted : consumed[id] = 0

\* C4: no accepted mutation is lost or applied twice: commit's loop takes no
\* call twice, a call pushed after the swap is not in the drained FIFO, and
\* once nothing is in flight every accepted call has been taken once and the
\* bindings are what applying the accepted calls one by one gives.
C4_NoMutationLost ==
    /\ \A id \in CallIds : consumed[id] <= 1
    /\ IdsOf(pending) \cap IdsOf(drained) = {}
    /\ Quiescent => /\ \A id \in accepted : consumed[id] = 1
                    /\ bindings = ideal

\* A drained update is fully applied: every field it carries is in its binding
FullyApplied(update) ==
    \A f \in Fields :
        update[f] # <<>> => bindings[update.slot + 1][f] = update[f][1]

\* C5: commits are all-or-nothing: render_to never runs while a drained patch
\* waits to be applied, and when commit's loop is over every drained patch is
\* fully applied.
C5_AllOrNothing ==
    /\ cpc = "painted" => drained = <<>>
    /\ CommitFinished =>
            \A k \in 1..Len(drained) : FullyApplied(drained[k])

\* C6 (as claimed): every mutation whose push returned before render_to
\* started is applied to the bindings that render paints.
C6_RenderCommits ==
    cpc = "painted" => runapplied = {}

\* C6 (amended): render_to does not commit: it paints the bindings exactly as
\* the last commit or new_surface left them, and the calls pushed since are
\* still in the FIFO, taken by no commit.
C6_RenderPaintsCommitted ==
    cpc = "painted" =>
        /\ bindings = committed
        /\ pixbuf = Render(committed, rinput).buf
        /\ runapplied \subseteq IdsOf(pending)
        /\ \A id \in runapplied : consumed[id] = 0

\* A frame was painted while a returned call waited in the FIFO, and the
\* frame differs from the one the accepted calls describe.
C6_Witness ==
    /\ cpc = "painted"
    /\ runapplied # {}
    /\ pixbuf # Render(ideal, rinput).buf

\* C7: push fails exactly when the FIFO is at capacity and the slot has no
\* pending update; the failure leaves the FIFO and the dirty flag as they
\* were and surfaces in the mutator (never in another step); a call for a slot
\* that is pending merges, field by field, also into a full FIFO.
C7_FindStep ==
    LET full == Len(pending) >= Capacity
        has == \E i \in 1..Len(pending) : pending[i].slot = pupd.slot
    IN  /\ (presult' = "err") <=> (full /\ ~has)
        /\ presult' = "err" =>
                /\ pending' = pending
                /\ damaged' = damaged
                /\ ppc' = "unlock"
        /\ has =>
                /\ presult' = "ok"
                /\ Len(pending') = Len(pending)
                /\ \A i \in 1..Len(pending) :
                        IF pending[i].slot = pupd.slot
                        THEN \A f \in Fields :
                                pending'[i][f] = IF pupd[f] # <<>> THEN pupd[f]
                                                 ELSE pending[i][f]
                        ELSE pending'[i] = pending[i]
C7_CapacityFailure ==
    [][/\ ppc = "find" /\ ppc' # "find" => C7_FindStep
       /\ ppc # "find" => (presult' = "err" => presult = "err")
       /\ (ppc = "unlock" /\ presult = "err" /\ ppc' # ppc) =>
                (ppc' = "panicked" /\ pending' = pending /\ damaged' = damaged)
      ]_vars

\* The mutator panicked on a full FIFO that is still full and dirty.
C7_Witness ==
    /\ ppc = "panicked"
    /\ presult = "err"
    /\ Len(pending) = Capacity
    /\ damaged

\* The binding paints pixel p (0-based): it passes render_to's tests and its
\* rectangle selects [left, left + width) of the buffer
Covers(b, p) ==
    /\ b.opacity > 0
    /\ b.visible
    /\ b.shader # NoShader
    /\ b.rect.left <= p
    /\ p < b.rect.right
Covering(p) == { k \in 1..Len(bindings) : Covers(bindings[k], p) }

\* C8: render_to paints in ascending slot order, and a pixel covered only by
\* opacity-255 surfaces ends up with the output of the highest covering slot.
C8_ZOrder ==
    cpc = "painted" =>
        /\ \A i, j \in 1..Len(rlog) : i < j => rlog[i] < rlog[j]
        /\ \A p \in 0..(Len(pixbuf) - 1) :
            (Covering(p) # {} /\ \A k \in Covering(p) : bindings[k].opacity = 255)
            => LET top == bindings[MaxOf(Covering(p))] IN
               pixbuf[p + 1] = draw(top.shader, p + top.offset)

\* Two opaque surfaces with different shader outputs cover one pixel.
C8_Witness ==
    /\ cpc = "painted"
    /\ \E p \in 0..(Len(pixbuf) - 1) :
        /\ Cardinality(Covering(p)) >= 2
        /\ \A k \in Covering(p) : bindings[k].opacity = 255
        /\ \E k \in Covering(p) :
            draw(bindings[k].shader, p) # draw(bindings[MaxOf(Covering(p))].shader, p)

\* The binding is one render_to must skip
Skipped(b) == b.opacity = 0 \/ ~b.visible \/ b.shader = NoShader
Without(bs, k) == SubSeq(bs, 1, k - 1) \o SubSeq(bs, k + 1, Len(bs))

\* C9: a binding with opacity 0, invisible or without shader is neither
\* sampled nor drawn, and the frame is the one the other bindings produce.
C9_SkippedContributeNothing ==
    cpc = "painted" =>
        \A k \in 1..Len(bindings) :
            Skipped(bindings[k]) =>
                /\ (k - 1) \notin rsampled
                /\ \A i \in 1..Len(rlog) : rlog[i] # k - 1
                /\ pixbuf = Render(Without(bindings, k), rinput).buf

\* A hidden or transparent binding with a shader lies over a painted one, and
\* painting it would have changed the frame.
C9_Witness ==
    /\ cpc = "painted"
    /\ rlog # <<>>
    /\ \E k \in 1..Len(bindings) :
        /\ bindings[k].shader # NoShader
        /\ bindings[k].opacity = 0 \/ ~bindings[k].visible
        /\ PaintBinding(pixbuf, [bindings[k] EXCEPT !.visible = TRUE,
                                                    !.opacity = 255]) # pixbuf

\* C10: new_surface appends exactly one binding (opacity 255, visible, zero
\* offset, no shader, the given rectangle), leaves the other bindings and the
\* queue alone, and the handle's slot is the previous length of the list.
C10_NewSurface ==
    [][Len(bindings') # Len(bindings) =>
        /\ Len(bindings') = Len(bindings) + 1
        /\ SubSeq(bindings', 1, Len(bindings)) = bindings
        /\ LET b == bindings'[Len(bindings')] IN
            /\ b.opacity = 255
            /\ b.visible
            /\ b.offset = 0
            /\ b.shader = NoShader
            /\ b.rect = ideal'[Len(ideal')].rect
        /\ pending' = pending
        /\ damaged' = damaged
        /\ handles' = Append(handles, Len(bindings))
      ]_vars

\* A second surface over a smaller area was created while the first one had
\* been changed by a commit and had another update pending.
C10_Witness ==
    /\ Len(bindings) = 2
    /\ handles = <<0, 1>>
    /\ bindings[1].opacity = 128
    /\ bindings[2] = [shader |-> NoShader, rect |-> [left |-> 0, right |-> 1],
                      opacity |-> 255, visible |-> TRUE, offset |-> 0]
    /\ pending # <<>>

\* Every slot held by a handle, a pending update, the update of a call in
\* flight or an update commit is about to apply indexes the bindings list
C11_Valid ==
    /\ \A i \in 1..Len(handles) : handles[i] = i - 1 /\ handles[i] < Len(bindings)
    /\ \A i \in 1..Len(pending) : pending[i].slot \in 0..(Len(bindings) - 1)
    /\ \A i \in 1..Len(drained) : drained[i].slot \in 0..(Len(bindings) - 1)
    /\ ppc \in {"lock", "find", "store"} => pupd.slot \in 0..(Len(bindings) - 1)

\* C11: the bindings list never shrinks, the slot of a handle never changes,
\* and the slot of every handle and of every pending or drained update is a
\* valid index into the bindings list, so commit never indexes out of range.
C11_SlotsStayValid ==
    [][/\ Len(bindings') >= Len(bindings)
       /\ SubSeq(handles', 1, Len(handles)) = handles
       /\ C11_Valid'
      ]_vars

\* commit is applying an update for the second surface while an update
\* pushed after the swap is pending.
C11_Witness ==
    /\ cpc = "apply"
    /\ cidx <= Len(drained)
    /\ drained[cidx].slot = 1
    /\ Len(bindings) = 2
    /\ pending # <<>>

\* The tasks that hold an AtomicGuard
Guards == { t \in TaskIds : tpc[t] = "guard" }

\* C12: at most one AtomicGuard exists at a time; try_lock succeeds exactly
\* when the status word is 0, setting it to 1, and otherwise fails leaving the
\* word and the guards as they were; lock returns only through such a
\* success; dropping the guard resets the status word to 0.
C12_MutualExclusion ==
    [][/\ Cardinality(Guards') <= 1
       /\ \A t \in TaskIds :
            /\ (tpc[t] = "try" /\ tpc'[t] # "try") =>
                    IF mstatus = 0
                    THEN tpc'[t] = "guard" /\ tresult'[t] = "ok" /\ mstatus' = 1
                    ELSE /\ tpc'[t] = "idle" /\ tresult'[t] = "err"
                         /\ mstatus' = mstatus /\ Guards' = Guards
            /\ (tpc[t] = "lock" /\ tpc'[t] # "lock") =>
                    mstatus = 0 /\ mstatus' = 1 /\ tpc'[t] = "guard"
            /\ (tpc[t] = "guard" /\ tpc'[t] # "guard") => mstatus' = 0
      ]_vars

\* One task holds the guard and has written through it; the other task's
\* try_lock failed and it now spins in lock.
C12_Witness ==
    /\ mstatus = 1
    /\ inner > 0
    /\ \E t, u \in TaskIds :
        /\ t # u
        /\ tpc[t] = "guard"
        /\ tresult[u] = "err"
        /\ tpc[u] = "lock"

C19_LinearSample ==
    lpc = "sampled" =>
        LET N == Len(lbuf)
            lo == left(lrect)
            hi == Min(N, left(lrect) + width(lrect))
            n == IF hi > lo THEN hi - lo ELSE 0
        IN  /\ Len(lpairs) = n
            /\ \A k \in 1..n :
                /\ lpairs[k].index = lo + k - 1
                /\ lpairs[k].x = lpairs[k].index
            /\ \A i \in 0..(N - 1) :
                lbuf[i + 1] = IF lo <= i /\ i < hi
                              THEN [r |-> i, b |-> i + 1]
                              ELSE Gradient(N)[i + 1]
            /\ lrect = everything => Len(lpairs) = N

\* A rectangle that starts inside a 3-pixel buffer and ends past it was
\* sampled: pixels 1 and 2 were yielded and written, pixel 0 was not.
C19_Witness ==
    /\ lpc = "sampled"
    /\ Len(lbuf) = 3
    /\ lrect = [left |-> 1, right |-> 4]
    /\ Len(lpairs) = 2
    /\ lbuf[1] = [r |-> 0, b |-> 0]
    /\ lbuf[3] = [r |-> 2, b |-> 3]

\* C20: the virtual x reported for index i of a sampled range [start, end] is
\* 255 * (i - start) / (end - start): the first sampled pixel reports 0.
C20_VirtualX ==
    \A k \in 1..Len(vpairs) :
        /\ vpairs[k].virt =
              (255 * (vpairs[k].index - view.start_idx))
                  \div (view.end_idx - view.start_idx)
        /\ k = 1 => vpairs[k].virt = 0

\* What the code reports instead: 255 * i / (end - start), saturated at 255,
\* which agrees with the claim only for ranges that start at index 0.
C20_VirtualXFromIndex ==
    \A k \in 1..Len(vpairs) :
        vpairs[k].virt =
            Min(255, (255 * vpairs[k].index) \div (view.end_idx - view.start_idx))

\* The requested power total_mw * target / 256 and the power of the frame at
\* brightness e, total_mw * e / 255, as plain integers (no wrapping), each
\* rounded down to a milliwatt
Requested(total_mw, target) ==
    (total_mw \div 256) * target + ((total_mw % 256) * target) \div 256
PowerAt(total_mw, e) ==
    (total_mw \div 255) * e + ((total_mw % 255) * e) \div 255
\* The power one brightness step stands for, rounded up
StepMw(total_mw) == (total_mw + 254) \div 255

\* C15: brightness_for_mw returns the target unchanged whenever the requested
\* power does not exceed the ceiling; a total under the ceiling at target 255
\* gives 255.
C15_UnderCeilingKeepsTarget ==
    bout # <<>> =>
        /\ Requested(btotal, btarget) <= bmax => bout[1] = btarget
        /\ (btotal <= bmax /\ btarget = 255) => bout[1] = 255

\* A 1000 mW frame under a 1 kW ceiling at target 254 was given 254, although
\* a dimmer target had been possible.
C15_Witness ==
    /\ bout = <<254>>
    /\ btotal = 1000
    /\ btarget = 254
    /\ bmax = 1000000

\* C16: when the requested power exceeds the ceiling, the value returned is
\* below the target and the frame's power at it exceeds the ceiling by no
\* more than one brightness step, for all total_mw, target and ceiling.
C16_OverCeilingScaled ==
    (bout # <<>> /\ Requested(btotal, btarget) > bmax) =>
        /\ bout[1] < btarget
        /\ PowerAt(btotal, bout[1]) <= bmax + StepMw(btotal)

\* The same for the totals whose product with the target fits 32 bits
C16_ScaledWithoutOverflow ==
    (/\ bout # <<>>
     /\ Requested(btotal, btarget) > bmax
     /\ Requested(btotal, btarget) < 16777216) =>
        /\ bout[1] < btarget
        /\ PowerAt(btotal, bout[1]) <= bmax + StepMw(btotal)

\* The last write found the controls on
LastWriteOn == wmodes # <<>> /\ wmodes[Len(wmodes)]
\* A step is a call of PowerManagedWriter::write
IsWrite == Len(wmodes') = Len(wmodes) + 1
Black == [r |-> 0, g |-> 0, b |-> 0]

\* C14: for every frame written while the controls are on, the power estimate
\* (idle floor included) of the pixels handed to the sink is at most max_mw.
C14_WrittenUnderCeiling ==
    LastWriteOn => slice_as_milliwatts(sunk) <= controls.max_mw

\* What holds instead: the estimate without the idle floor of DARK_MW per
\* pixel is within the ceiling.
C14_ChannelsUnderCeiling ==
    LastWriteOn =>
        slice_as_milliwatts(sunk) - DARK_MW * Len(sunk) <= controls.max_mw

\* C17: a write made while the controls are off hands the sink one pixel per
\* input pixel, every channel 0, whatever brightness, gamma curve and ceiling;
\* a write made while they are on (again) is brightness-managed.
C17_OffWritesBlack ==
    [][IsWrite =>
        /\ Len(sunk') = Len(wframe')
        /\ ~controls.is_on => \A i \in 1..Len(sunk') : sunk'[i] = Black
        /\ controls.is_on => sunk' = iter_brightness(controls, wframe')
      ]_vars

\* A frame was written black while the controls were off; after set_on(true)
\* the next frame, with lit pixels, went out dimmed by the power budget.
C17_Witness ==
    /\ wmodes = <<FALSE, TRUE>>
    /\ \E i \in 1..Len(sunk) : sunk[i] # Black
    /\ sunk # wframe
    /\ controls.cur_mw > controls.max_mw

\* C18: write calls the sink's write exactly once and returns what the sink
\* returned: an Err comes back as the same Err and is not retried.
C18_SinkResultPropagated ==
    [][IsWrite =>
        /\ sinkcalls' = sinkcalls + 1
        /\ wresult' = sinkresult'
      ]_vars

\* Two writes made two sink calls; the second failed and write returned the
\* sink's error.
C18_Witness ==
    /\ Len(wmodes) = 2
    /\ sinkcalls = 2
    /\ sinkresult = "err_bus"
    /\ wresult = "err_bus"

\* Buffer indices of the cells a StrideView yielded, in order
YieldedIdx == [k \in 1..Len(syield) |-> syield[k].idx]

\* Buffer indices LinearSampleView yields over an n-pixel buffer for the
\* extent lo..hi: start_idx up to end_idx - 1
LinearIndices(n, lo, hi) ==
    LET v == LinearSampleViewNew(n, [left |-> lo, right |-> hi])
    IN  [k \in 1..v.length |-> v.start_idx + k - 1]

\* The mapping is the single non-reversed segment (0, 0, N) over an N-pixel
\* buffer and the rectangle is not inverted
SingleSegment ==
    /\ Len(smap.strides) = 1
    /\ smap.strides[1].y = 0
    /\ ~smap.strides[1].reverse
    /\ sbuflen = smap.pixel_count
    /\ srect.top_left.x <= srect.bottom_right.x
    /\ srect.top_left.y <= srect.bottom_right.y

\* C21: a StrideMapping of one non-reversed segment (0, 0, N) samples like the
\* linear mapper over an N-pixel buffer: the iteration ends, having yielded
\* the linear mapper's indices for the same extent along the strip, and
\* everything() yields each of the N indices once.
C21_SingleSegmentIsLinear ==
    SingleSegment =>
        /\ spc # "panic"
        /\ spc = "done" =>
              /\ YieldedIdx = LinearIndices(smap.pixel_count, srect.top_left.y,
                                            srect.bottom_right.y)
              /\ srect = Everything2 =>
                    YieldedIdx = [k \in 1..smap.pixel_count |-> k - 1]

\* C22: within one sample call no buffer cell is yielded twice: the buffer
\* indices a StrideView has yielded are pairwise distinct.
C22_NoCellTwice ==
    \A i, j \in 1..Len(syield) : i # j => syield[i].idx # syield[j].idx

\* The slice sampler's half of C22: the indices sample yields are distinct
C22_LinearNoCellTwice ==
    \A i, j \in 1..Len(lpairs) : i # j => lpairs[i].index # lpairs[j].index

\* The index C23 gives the cell at row r of a segment
IndexOfRow(stride, r) ==
    IF stride.reverse
    THEN stride.physical_idx + stride.length - 1 - (r - stride.y)
    ELSE stride.physical_idx + (r - stride.y)

\* C23: a cell yielded at row r of a segment with base b, row offset y0 and
\* length L has index b + (r - y0), or b + L - 1 - (r - y0) when the segment
\* is reversed, and the index lies in [b, b + L).
C23_IndexInSegment ==
    \A k \in 1..Len(syield) :
        LET stride == StrideAt(smap, syield[k].x) IN
        /\ syield[k].idx = IndexOfRow(stride, syield[k].y)
        /\ stride.physical_idx <= syield[k].idx
        /\ syield[k].idx < stride.physical_idx + stride.length

\* What pixel_idx_for_offset does get right: the cells of a reversed segment,
\* and of a segment with row offset 0, at the index C23 gives
C23_IndexWhenReversedOrAtTop ==
    \A k \in 1..Len(syield) :
        LET stride == StrideAt(smap, syield[k].x) IN
        (stride.reverse \/ stride.y = 0) =>
            syield[k].idx = IndexOfRow(stride, syield[k].y)

\* Rows of column x that lie both in the window's row range and in the
\* column's segment, with slack rows more allowed at the bottom of each
RowsOf(x, slack) ==
    LET stride == StrideAt(smap, x) IN
    { y \in 0..(MaxRow + MaxSegLen + 1) :
        /\ sview.range.top_left.y <= y
        /\ y <= sview.range.bottom_right.y + slack
        /\ stride.y <= y
        /\ y <= stride.y + stride.length - 1 + slack }

\* Cells of the window: column by column, the rows of RowsOf
Cells(slack) ==
    { c \in [x : 0..MaxSegs, y : 0..(MaxRow + MaxSegLen + 1)] :
        /\ sview.range.top_left.x <= c.x
        /\ c.x <= sview.range.bottom_right.x
        /\ c.y \in RowsOf(c.x, slack) }

YieldedCells == { [x |-> syield[k].x, y |-> syield[k].y] : k \in 1..Len(syield) }

\* Columns left to right, rows ascending within a column, no cell twice
InScanOrder ==
    \A i, j \in 1..Len(syield) :
        i < j => \/ syield[i].x < syield[j].x
                 \/ syield[i].x = syield[j].x /\ syield[i].y < syield[j].y

\* C24: StrideView yields, column by column from the left, exactly the rows
\* in the intersection of the window's row range [top, bottom] and the
\* column's segment extent [y0, y0 + L - 1], ascending and once each, and
\* nothing for a column whose intersection is empty.
C24_RowsClipped ==
    spc \in {"iter", "done", "panic"} =>
        /\ YieldedCells \subseteq Cells(0)
        /\ InScanOrder
        /\ spc = "done" => YieldedCells = Cells(0)

\* What next does clip to: one row past the window and past the segment
C24_RowsClippedOnePast ==
    spc \in {"iter", "done", "panic"} =>
        /\ YieldedCells \subseteq Cells(1)
        /\ InScanOrder
        /\ (spc = "done" /\ rect_height(sview.range) > 0) => YieldedCells = Cells(1)

\* top_left is above and left of bottom_right (or equal to it)
WellFormed(r) ==
    /\ r.top_left.x <= r.bottom_right.x
    /\ r.top_left.y <= r.bottom_right.y

\* C25 as stated: for every rectangle r of every space, rotated(1) four times
\* in succession returns r, and rotated(4) returns r.
C25_FourTurns ==
    (gturns = <<1, 1, 1, 1>> \/ gturns = <<4>>) => grect = gorig

\* C25: for every rectangle r whose top_left is not below or right of its
\* bottom_right, rotated(1) four times in succession returns r, and
\* rotated(4) returns r.
C25_FourTurnsWellFormed ==
    (WellFormed(gorig) /\ (gturns = <<1, 1, 1, 1>> \/ gturns = <<4>>)) =>
        grect = gorig

\* A rectangle that is not its own transpose, turned four times by rotated(1)
C25_Witness ==
    /\ WellFormed(gorig)
    /\ gorig # rect_rotated(gspace, gorig, 1)
    /\ gturns = <<1, 1, 1, 1>>
    /\ grect = gorig

\* rotated(1) applied n times to r
RECURSIVE QuarterTurns(_, _, _)
QuarterTurns(space, r, n) ==
    IF n = 0 THEN r ELSE rect_rotated(space, QuarterTurns(space, r, n - 1), 1)

\* C26: rotated(n) is n successive quarter turns: r.rotated(n) equals
\* rotated(1) applied n times for n in 0..3, and rotated(a) followed by
\* rotated(b) equals rotated((a + b) mod 4).
C26_TurnsCompose ==
    WellFormed(gorig) =>
        /\ Len(gturns) = 1 /\ gturns[1] <= 3 =>
              grect = QuarterTurns(gspace, gorig, gturns[1])
        /\ Len(gturns) = 2 =>
              grect = rect_rotated(gspace, gorig, (gturns[1] + gturns[2]) % 4)

\* C27: for every pixel format and all channel values a and b, blend8(a, b, 0)
\* returns a and blend8(a, b, 255) returns b, channel for channel.
C27_BlendEndpoints ==
    nout # <<>> =>
        /\ nscale = 0 => nout[1] = na
        /\ nscale = 255 => nout[1] = nb

\* A four-channel blend at 255 of operands that differ in every channel
C27_Witness ==
    /\ nout # <<>>
    /\ nfmt = "Rgba"
    /\ nscale = 255
    /\ \A c \in Channels(nfmt) : na[c] # nb[c]
    /\ nout[1] = nb

\* C28: the linear view's iteration is finite for every buffer and every
\* rectangle, inverted ones included: after finitely many calls next returns
\* None, and it returns None from then on.
C28_LinearViewEnds == <>[](vpc = "done")

\* The same for rectangles whose left edge is not right of their right edge
C28_LinearViewEndsWhenOrdered ==
    (vrect.left <= vrect.right) => <>[](vpc = "done")

\* StrideView's half of C28: the iteration stops after finitely many calls,
\* with None or with a panic
C28_StrideViewStops == <>[](spc \in {"done", "panic"})

\* The linear view's iteration stops as well, with None or with a panic
C28_LinearViewStops == <>[](vpc \in {"done", "panic"})

\* C29: whenever the lock around the pending FIFO is not held, the damaged
\* flag is true if and only if the FIFO is not empty.
C29_DamagedIffPending ==
    status = 0 => (damaged <=> pending # <<>>)

\* The lock is free after a drain: the flag is clear and the FIFO empty while
\* commit still applies what it took and the producer is about to push again
C29_Witness ==
    /\ status = 0
    /\ ~damaged
    /\ pending = <<>>
    /\ cpc = "apply"
    /\ drained # <<>>
    /\ ppc = "lock"

\* Commit's loop has applied the drained update that carries call id, and
\* every field of that update is in its binding
AppliedIn(id, fields) ==
    /\ cpc = "apply"
    /\ \E k \in 1..Len(drained) :
          /\ k < cidx
          /\ id \in drained[k].ids
          /\ \A f \in fields :
                drained[k][f] # <<>> =>
                    bindings[drained[k].slot + 1][f] = drained[k][f][1]

\* C30: with a fair consumer, a state in which a slot has a pending update
\* leads to a state in which its binding reflects that update: commit has
\* applied the update and the binding carries every field of it.
C30_PendingLeadsToBinding ==
    \A id \in CallIds : (id \in IdsOf(pending)) ~> AppliedIn(id, Fields)

\* The same for the four fields commit's loop writes
C30_PendingLeadsToFourFields ==
    \A id \in CallIds :
        (id \in IdsOf(pending)) ~> AppliedIn(id, Fields \ {"offset"})

\* C31: with fairly scheduled tasks and every guard eventually dropped, every
\* call of AtomicMutex::lock by a task that does not hold the guard eventually
\* returns with the guard.
C31_LockReturns ==
    \A t \in TaskIds : (tpc[t] = "lock") ~> (tpc[t] = "guard")

\* The tasks never deadlock each other: while some task is inside lock, some
\* task eventually holds the guard
C31_SomeLockReturns ==
    (\E t \in TaskIds : tpc[t] = "lock") ~> (\E t \in TaskIds : tpc[t] = "guard")

\* Every call of lock returns when the scheduler lets the waiter's
\* compare-exchange meet a free word (checked under SpecMutexStrong)
C31_LockReturnsWhenAcquireFair ==
    \A t \in TaskIds : (tpc[t] = "lock") ~> (tpc[t] # "lock")

\* No mutator call has been accepted since the previous commit took the FIFO
\* (or ever), none is in progress, and no commit is
NothingSinceCommit ==
    /\ cpc = "idle"
    /\ ppc \in {"idle", "panicked"}
    /\ \A i \in 1..Len(batch) : batch[i] = NoFields

\* C32: when no mutator has been called since the previous commit (or ever),
\* the FIFO is empty, the flag clear and the lock free, and a commit entered
\* then returns at once: it does not go for the lock and leaves the bindings,
\* the FIFO and the flag as they were, so a second commit right after a first
\* changes nothing.
C32_CleanCommitIsNoOp ==
    /\ [](NothingSinceCommit => (pending = <<>> /\ ~damaged /\ status = 0))
    /\ [][NothingSinceCommit =>
            /\ cpc' # "lock"
            /\ status' = 0
            /\ UNCHANGED <<pending, damaged>>
            /\ (bindings' = bindings \/ Len(handles') > Len(handles))
         ]_vars

\* A commit has applied updates and returned, nothing has been called since:
\* the next commit is the second of two back-to-back commits
C32_Witness ==
    /\ NothingSinceCommit
    /\ \E id \in CallIds : consumed[id] > 0
    /\ bindings = committed
    /\ \E i \in 1..Len(bindings) : bindings[i] # NewBinding(everything)

\* Every mutator call made so far was accepted by push: the calls stayed
\* within the capacity of the FIFO
WithinCapacity == accepted = 1..ncalls

\* C33: for shader, rectangle, opacity and visibility the buffered engine
\* refines an unbuffered one: once the calls made so far (all accepted) have
\* been committed and nothing is in flight, every binding has in these four
\* fields what applying each call directly to its binding, in call order,
\* gives.
C33_RefinesUnbuffered ==
    (Quiescent /\ WithinCapacity) =>
        \A k \in 1..Len(bindings) :
            [bindings[k] EXCEPT !.offset = ideal[k].offset] = ideal[k]

\* At least three calls on two surfaces have all been accepted and committed,
\* and both bindings moved off new_surface's defaults
C33_Witness ==
    /\ Quiescent
    /\ WithinCapacity
    /\ ncalls >= 3
    /\ Len(bindings) = 2
    /\ \A k \in 1..2 :
          [bindings[k] EXCEPT !.offset = 0] # [NewBinding(everything) EXCEPT !.offset = 0]
    /\ \A id \in accepted : consumed[id] = 1

\* C34: the capacity of the FIFO behind the lock is after every commit what it
\* was at construction: the ring buffer commit swaps in holds as many updates
\* as the one it replaces.
C34_CapacityKept == [][pcap' = pcap]_vars

\* The same seen from the producer: a push that finds no update for its slot
\* is turned away exactly when as many updates are pending as the ring buffer
\* held at construction
C34_FullAtConstructionCapacity ==
    [][(ppc = "find" /\ ppc' # "find" /\ existing_slot(pending, pupd.slot) = 0) =>
            ((presult' = "err") <=> (Len(pending) >= Capacity))]_vars

\* C35: every buffer index StrideView produces is less than the mapping's
\* pixel_count, for every mapping and rectangle: no cell it yields lies at or
\* past pixel_count, and no call of next indexes outside the buffer (in a
\* release build an index outside the buffer is the only panic there is).
C35_IndexInBuffer ==
    /\ \A k \in 1..Len(syield) : syield[k].idx < smap.pixel_count
    /\ build = "release" => spc # "panic"

\* The segments of the mapping that were declared with x = c
DeclaredFor(c) ==
    { smap.strides[i] : i \in { n \in 1..Len(smap.strides) : smap.strides[n].x = c } }

\* C36: the segment StrideView uses for column c is the segment declared with
\* x = c, whatever the order and the x values of the list given to from_json:
\* every cell reported for column c was taken from (and indexed by) that
\* segment, and no call of next looks a column up past the strides array.
C36_ColumnFromItsSegment ==
    /\ \A k \in 1..Len(syield) :
            /\ StrideAt(smap, syield[k].x) \in DeclaredFor(syield[k].x)
            /\ \E s \in DeclaredFor(syield[k].x) :
                    syield[k].idx = pixel_idx_for_offset(s, syield[k].y)
    /\ ~(spc = "panic" /\ sview.cur.x >= STRIDE_NUM)

\* The same for lists that declare column k as their entry k
C36_ColumnFromItsSegmentInOrder ==
    (\A i \in 1..Len(smap.strides) : smap.strides[i].x = i - 1)
        => C36_ColumnFromItsSegment

\* The surface the last finish created: its slot, the rectangle it was to
\* have, the pending updates for it, the ids of the calls finish made on it,
\* the binding a commit is to produce
FinishSlot == handles[bbase + 1]
GivenRect == IF bcfg.rect # <<>> THEN bcfg.rect[1] ELSE everything
FinishPending == { k \in 1..Len(pending) : pending[k].slot = FinishSlot }
FinishIds == (bfirst + 1)..(bfirst + FinishCalls(bcfg, 3))
FinishConfigured ==
    [NewBinding(GivenRect) EXCEPT
        !.opacity = IF bcfg.opacity # <<>> THEN bcfg.opacity[1] ELSE @,
        !.shader = IF bcfg.shader # <<>> THEN bcfg.shader[1] ELSE @,
        !.visible = IF bcfg.visible # <<>> THEN bcfg.visible[1] ELSE @]

\* finish has created exactly one surface; until commit is next called its
\* binding has new_surface's defaults over the given rectangle; once a commit
\* has taken the calls finish made, the binding has the configured values
FinishBinding ==
    /\ bpc \in {"returned", "used"} => Len(bindings) = bbase + 1
    /\ bpc = "returned" =>
            bindings[FinishSlot + 1] = NewBinding(GivenRect)
    /\ (bpc = "used" /\ cpc = "idle" /\ \A id \in FinishIds : consumed[id] >= 1) =>
            bindings[FinishSlot + 1] = FinishConfigured

\* The one update pending for the surface carries what was configured
FinishCarries(k) ==
    /\ pending[k].opacity = bcfg.opacity
    /\ pending[k].shader = bcfg.shader
    /\ pending[k].visible = bcfg.visible
    /\ pending[k].rect = <<>>

\* C37 (as claimed): finish creates exactly one surface and leaves exactly one
\* pending update for its slot, carrying every configured opacity, shader and
\* visibility; the binding keeps new_surface's defaults until the next
\* commit, after which it has the configured values and the given rectangle.
C37_FinishLeavesOneUpdate ==
    /\ FinishBinding
    /\ bpc = "returned" =>
            /\ Cardinality(FinishPending) = 1
            /\ \A k \in FinishPending : FinishCarries(k)

\* C37 (amended): the same, with exactly one pending update when an opacity, a
\* shader or a visibility was configured and none when nothing was.
C37_FinishLeavesAtMostOneUpdate ==
    /\ FinishBinding
    /\ bpc = "returned" =>
            /\ Cardinality(FinishPending) = (IF FinishIds = {} THEN 0 ELSE 1)
            /\ \A k \in FinishPending : FinishCarries(k)

\* The second surface was built with a rectangle, an opacity, a shader and a
\* visibility while the first one's update was still pending; a commit has
\* applied both and the binding has what was configured
C37_Witness ==
    /\ bpc = "used"
    /\ cpc = "idle"
    /\ Len(bindings) = 2
    /\ bbase = 1
    /\ \A f \in {"rect", "opacity", "shader", "visible"} : bcfg[f] # <<>>
    /\ \A id \in 1..ncalls : consumed[id] = 1
    /\ bindings[2] = FinishConfigured
    /\ bindings[2] # NewBinding(everything)
    /\ bindings[1] # NewBinding(everything)

\* C38: for all bytes a and b and every fraction f, blend8(a, b, f) lies
\* between min(a, b) and max(a, b) inclusive.
C38_BlendBetween ==
    nout # <<>> =>
        \A c \in Channels(nfmt) :
            /\ Min(na[c], nb[c]) <= nout[1][c]
            /\ nout[1][c] <= Max(na[c], nb[c])

\* A blend whose 16-bit sum (self << 8 | other) + other * scale wraps: the
\* result is still between the operands, and strictly between them
C38_Witness ==
    /\ nout # <<>>
    /\ nscale \notin {0, 255}
    /\ na["v"] * 256 + nb["v"] + nb["v"] * nscale > 65535
    /\ na["v"] < nout[1]["v"]
    /\ nout[1]["v"] < nb["v"]

====
